---- MODULE Spec2Model ----
(***************************************************************************)
(* Grove (src/src/grove): the tables of models.py as the CLI commands of   *)
(* cli.py read and write them. One action per CLI command; every command   *)
(* runs in one get_session() scope (db.py) and is one transaction, hence   *)
(* one atomic step. get_session itself is modelled step by step in its own *)
(* specification (SpecSession).                                            *)
(***************************************************************************)
EXTENDS Integers, Sequences, FiniteSets, Bags, TLC

\* ---------------------------------------------------------------- bounds
\* Each specification below explores the tables up to its own sizes.
MaxBuds    == 3   \* SpecDeps: Bud rows
MaxDeps    == 3   \* SpecDeps: BudDependency rows
MaxChain   == 4   \* SpecDeps: longest argument list given to `chain`
LifeBuds   == 3   \* SpecLife: Bud rows
LifeLog    == 3   \* SpecLife: ActivityLog rows
StartBuds  == 2   \* SpecStart: Bud rows
StartDeps  == 2   \* SpecStart: BudDependency rows
StartLog   == 2   \* SpecStart: ActivityLog rows
QBuds      == 2   \* SpecQuery: Bud rows
QDeps      == 2   \* SpecQuery: BudDependency rows
SessLog    == 2   \* SpecSession: ActivityLog rows, written or pending
GraftTrunks == 1  \* SpecGraft: Trunk rows at the start
GraftStems == 2   \* SpecGraft: Stem rows at the start
GraftBuds  == 1   \* SpecGraft: Bud rows at the start
GraftLine  == 3   \* SpecGraft: references on one command line
SplitChildren == 4  \* SpecSplit: children of the Trunk or Stem that is split
SplitParts == 4   \* SpecSplit: largest --into
ScanTrunks == 1   \* SpecScan: Trunk rows
ScanStems  == 2   \* SpecScan: Stem rows
ScanBuds   == 1   \* SpecScan: Bud rows
ScanFruits == 1   \* SpecScan: Fruit rows
ScanMaxT   == 2   \* SpecScan: largest --threshold
CtxBuds    == 1   \* SpecContext: Bud rows
CtxTimes   == 1   \* SpecContext: values of the clock
CtxLog     == 2   \* SpecContext: ActivityLog rows
PollenRows == 2   \* SpecPollen: Pollen rows
PollenTimes == 1  \* SpecPollen: values of the clock
ActLog     == 2   \* SpecActivity: ActivityLog rows
BeadsLines == 4   \* SpecBeads: lines of issues.jsonl
RefLen     == 5   \* SpecRef: characters of a reference
WhyRows    == 2   \* SpecWhy: Trunk rows, and Grove rows
LinkStems  == 3   \* SpecLink: Stem rows
RaceBuds   == 2   \* SpecRace: Bud rows
RaceProcs  == 2   \* SpecRace: processes running `blocks`

VARIABLES
    buds,   \* todos.buds: buds[id] is Bud.status of the row with that id
    deps,   \* todos.bud_dependencies: a bag of rows (rows differ only by id)
    log,    \* todos.activity_log: the rows in insertion order
    out,    \* what the last command printed on the console
    bud_cols,     \* todos.buds: bud_cols[id] holds the other columns of Bud id
    groves,       \* todos.groves: groves[id] is the Grove row with that id
    trunks,       \* todos.trunks: trunks[id] is the Trunk row with that id
    stems,        \* todos.stems: stems[id] is the Stem row with that id
    fruits,       \* todos.fruits: fruits[id] is the Fruit row with that id
    tidy_config,  \* todos.tidy_config: the set of TidyConfig rows (key, value)
    pollen,       \* the pollen table: pollen[id] is the Pollen row with that id
    session,      \* one use of get_session: where it is and what it has done
    procs         \* CLI processes running side by side: procs[p] is where
                  \* process p is in its command, with what it was given

vars == <<buds, deps, log, out, bud_cols, groves, trunks, stems, fruits,
          tidy_config, pollen, session, procs>>

\* the tables of the hierarchy, of the tidy thresholds and of pollen
hierarchy == <<groves, trunks, stems, fruits>>

\* ------------------------------------------------------------ the schema
\* models.py Bud docstring: the status vocabulary
Statuses == {"seed", "dormant", "budding", "bloomed", "mulch"}

\* a BudDependency row as `blocks` and `chain` construct it
BudDependency(blocked_id, blocker_id) ==
    [bud_id |-> blocked_id, depends_on_id |-> blocker_id,
     dependency_type |-> "blocks"]

\* a nullable column that is not set (ids and timestamps start at 1)
NULL == 0

\* the columns of a new Bud other than its status
Bud(title, stem_id) ==
    [title |-> title, stem_id |-> stem_id, trunk_id |-> NULL,
     grove_id |-> NULL, last_checked_at |-> NULL]

\* a new Trunk
Trunk(title, parent_id, grove_id) ==
    [title |-> title, parent_id |-> parent_id, grove_id |-> grove_id,
     last_checked_at |-> NULL]

\* a new Stem (beads_repo None is written "")
Stem(title, trunk_id, parent_stem_id) ==
    [title |-> title, trunk_id |-> trunk_id,
     parent_stem_id |-> parent_stem_id, beads_repo |-> "",
     last_checked_at |-> NULL]

\* no get_session scope is open
NoSession ==
    [pc |-> "idle", new |-> << >>, exc |-> "", calls |-> << >>,
     result |-> ""]

\* the elements of a sequence
Range(seq) == {seq[i] : i \in DOMAIN seq}

\* session.query(Bud).filter(Bud.id == bud_id).first() is not None
BudFound(bud_id) == bud_id \in DOMAIN buds

\* session.query(BudDependency).filter(bud_id == .., depends_on_id == ..):
\* the rows of table d for the pair (no filter on dependency_type)
DepRows(d, blocked_id, blocker_id) ==
    {r \in BagToSet(d) : r.bud_id = blocked_id /\ r.depends_on_id = blocker_id}

\* number of rows of table d
DepCount(d) == BagCardinality(d)

\* an ActivityLog row as the commands construct it
ActivityLog(item_type, item_id, event_type, content) ==
    [item_type |-> item_type, item_id |-> item_id,
     event_type |-> event_type, content |-> content]

\* log_activity that writes over the newest row instead of adding one
log_activity_overwrite(item_type, item_id, event_type, content) ==
    IF log = << >>
    THEN <<ActivityLog(item_type, item_id, event_type, content)>>
    ELSE [log EXCEPT ![Len(log)] =
             ActivityLog(item_type, item_id, event_type, content)]

\* log_activity: the ActivityLog row added to the session
\* (content is f'{old} -> {new}', the arrow being U+2192 in the source)
log_activity(item_type, item_id, event_type, content) ==
    Append(log, [item_type |-> item_type, item_id |-> item_id,
                 event_type |-> event_type, content |-> content])

\* console output of one command
Printed(cmd, args, msg, shown) ==
    [cmd |-> cmd, args |-> args, msg |-> msg, shown |-> shown]

\* ------------------------------------------------------------------ Init
Init ==
    /\ buds = << >>
    /\ bud_cols = << >>
    /\ deps = EmptyBag
    /\ log = << >>
    /\ groves = << >>
    /\ trunks = << >>
    /\ stems = << >>
    /\ fruits = << >>
    /\ tidy_config = {}
    /\ pollen = << >>
    /\ session = NoSession
    /\ procs = << >>
    /\ out = Printed("none", << >>, "", {})

\* ------------------------------------------------------- Bud management
add ==
    /\ buds' = Append(buds, "seed")
    /\ bud_cols' = Append(bud_cols, Bud("t", NULL))
    /\ out' = Printed("add", <<Len(buds) + 1>>, "Planted seed", {})
    /\ UNCHANGED <<deps, log>>

bloom(bud_id) ==
    IF ~BudFound(bud_id)
    THEN /\ out' = Printed("bloom", <<bud_id>>, "Bud not found", {})
         /\ UNCHANGED <<buds, deps, log>>
    ELSE /\ buds' = [buds EXCEPT ![bud_id] = "bloomed"]
         /\ log' = log_activity("bud", bud_id, "status_changed",
                                buds[bud_id] \o " -> bloomed")
         /\ out' = Printed("bloom", <<bud_id>>, "Bloomed", {})
         /\ UNCHANGED deps

done_alias(bud_id) ==
    IF ~BudFound(bud_id)
    THEN /\ out' = Printed("done", <<bud_id>>, "Bud not found", {})
         /\ UNCHANGED <<buds, deps, log>>
    ELSE /\ buds' = [buds EXCEPT ![bud_id] = "bloomed"]
         /\ log' = log_activity("bud", bud_id, "status_changed",
                                buds[bud_id] \o " -> bloomed")
         /\ out' = Printed("done", <<bud_id>>, "Bloomed", {})
         /\ UNCHANGED deps

mulch(bud_id) ==
    IF ~BudFound(bud_id)
    THEN /\ out' = Printed("mulch", <<bud_id>>, "Bud not found", {})
         /\ UNCHANGED <<buds, deps, log>>
    ELSE /\ buds' = [buds EXCEPT ![bud_id] = "mulch"]
         /\ log' = log_activity("bud", bud_id, "status_changed",
                                buds[bud_id] \o " -> mulch")
         /\ out' = Printed("mulch", <<bud_id>>, "Mulched", {})
         /\ UNCHANGED deps

start(bud_id) ==
    IF ~BudFound(bud_id)
    THEN /\ out' = Printed("start", <<bud_id>>, "Bud not found", {})
         /\ UNCHANGED <<buds, deps, log>>
    ELSE IF buds[bud_id] = "budding"
    THEN /\ out' = Printed("start", <<bud_id>>, "Already budding", {})
         /\ UNCHANGED <<buds, deps, log>>
    ELSE /\ buds' = [buds EXCEPT ![bud_id] = "budding"]
         /\ log' = log_activity("bud", bud_id, "status_changed",
                                buds[bud_id] \o " -> budding")
         /\ out' = Printed("start", <<bud_id>>, "Started budding", {})
         /\ UNCHANGED deps

plant(bud_id) ==
    IF ~BudFound(bud_id)
    THEN /\ out' = Printed("plant", <<bud_id>>, "Bud not found", {})
         /\ UNCHANGED <<buds, deps, log>>
    ELSE IF buds[bud_id] # "seed"
    THEN /\ out' = Printed("plant", <<bud_id>>, "Not a seed", {})
         /\ UNCHANGED <<buds, deps, log>>
    ELSE /\ buds' = [buds EXCEPT ![bud_id] = "dormant"]
         /\ log' = log_activity("bud", bud_id, "status_changed",
                                "seed -> dormant")
         /\ out' = Printed("plant", <<bud_id>>, "Planted", {})
         /\ UNCHANGED deps

\* ---------------------------------------------------------- dependencies
\* blocks without the blocker_id == blocked_id test
blocks_noselfcheck(blocker_id, blocked_id) ==
    IF ~BudFound(blocker_id)
    THEN /\ out' = Printed("blocks", <<blocker_id, blocked_id>>,
                           "Blocker bud not found", {})
         /\ UNCHANGED <<buds, deps, log>>
    ELSE IF ~BudFound(blocked_id)
    THEN /\ out' = Printed("blocks", <<blocker_id, blocked_id>>,
                           "Blocked bud not found", {})
         /\ UNCHANGED <<buds, deps, log>>
    ELSE IF DepRows(deps, blocked_id, blocker_id) # {}
    THEN /\ out' = Printed("blocks", <<blocker_id, blocked_id>>,
                           "Dependency already exists", {})
         /\ UNCHANGED <<buds, deps, log>>
    ELSE /\ deps' = deps (+) SetToBag({BudDependency(blocked_id, blocker_id)})
         /\ out' = Printed("blocks", <<blocker_id, blocked_id>>, "Created", {})
         /\ UNCHANGED <<buds, log>>

\* blocks (cli.py:340-385)
blocks(blocker_id, blocked_id) ==
    IF ~BudFound(blocker_id)
    THEN /\ out' = Printed("blocks", <<blocker_id, blocked_id>>,
                           "Blocker bud not found", {})
         /\ UNCHANGED <<buds, deps, log>>
    ELSE IF ~BudFound(blocked_id)
    THEN /\ out' = Printed("blocks", <<blocker_id, blocked_id>>,
                           "Blocked bud not found", {})
         /\ UNCHANGED <<buds, deps, log>>
    ELSE IF blocker_id = blocked_id
    THEN /\ out' = Printed("blocks", <<blocker_id, blocked_id>>,
                           "A bud cannot block itself", {})
         /\ UNCHANGED <<buds, deps, log>>
    ELSE IF DepRows(deps, blocked_id, blocker_id) # {}
    THEN /\ out' = Printed("blocks", <<blocker_id, blocked_id>>,
                           "Dependency already exists", {})
         /\ UNCHANGED <<buds, deps, log>>
    ELSE /\ deps' = deps (+) SetToBag({BudDependency(blocked_id, blocker_id)})
         /\ out' = Printed("blocks", <<blocker_id, blocked_id>>, "Created", {})
         /\ UNCHANGED <<buds, log>>

\* `blocks` statement by statement, as process p runs it next to others.
\* Each query is one statement and sees the rows committed before it (the
\* engine of db.py:18 sets no isolation level: READ COMMITTED); session.add
\* and session.commit insert the row and commit it.

\* process p at pc with the arguments it was given (NULL before it starts)
Proc(pc, blocker_id, blocked_id) ==
    [pc |-> pc, blocker_id |-> blocker_id, blocked_id |-> blocked_id]

\* cli.py:355-366: the two Bud queries and the tests on them
blocks_buds(p, blocker_id, blocked_id) ==
    /\ procs[p].pc = "idle"
    /\ UNCHANGED <<buds, deps, log>>
    /\ IF ~BudFound(blocker_id)
       THEN /\ out' = Printed("blocks", <<blocker_id, blocked_id>>,
                              "Blocker bud not found", {p})
            /\ procs' = [procs EXCEPT ![p] = Proc("done", blocker_id, blocked_id)]
       ELSE IF ~BudFound(blocked_id)
       THEN /\ out' = Printed("blocks", <<blocker_id, blocked_id>>,
                              "Blocked bud not found", {p})
            /\ procs' = [procs EXCEPT ![p] = Proc("done", blocker_id, blocked_id)]
       ELSE IF blocker_id = blocked_id
       THEN /\ out' = Printed("blocks", <<blocker_id, blocked_id>>,
                              "A bud cannot block itself", {p})
            /\ procs' = [procs EXCEPT ![p] = Proc("done", blocker_id, blocked_id)]
       ELSE /\ out' = out
            /\ procs' = [procs EXCEPT ![p] = Proc("existing", blocker_id, blocked_id)]

\* cli.py:368-376: the `existing` query and the test on it
blocks_existing(p) ==
    /\ procs[p].pc = "existing"
    /\ UNCHANGED <<buds, deps, log>>
    /\ IF DepRows(deps, procs[p].blocked_id, procs[p].blocker_id) # {}
       THEN /\ out' = Printed("blocks",
                              <<procs[p].blocker_id, procs[p].blocked_id>>,
                              "Dependency already exists", {p})
            /\ procs' = [procs EXCEPT ![p].pc = "done"]
       ELSE /\ out' = out
            /\ procs' = [procs EXCEPT ![p].pc = "commit"]

\* cli.py:378-385: session.add(dep), session.commit()
blocks_commit(p) ==
    /\ procs[p].pc = "commit"
    /\ deps' = deps (+) SetToBag({BudDependency(procs[p].blocked_id,
                                                procs[p].blocker_id)})
    /\ out' = Printed("blocks", <<procs[p].blocker_id, procs[p].blocked_id>>,
                      "Created", {p})
    /\ procs' = [procs EXCEPT ![p].pc = "done"]
    /\ UNCHANGED <<buds, log>>

\* session.delete(dep) of the row .first() returned: one row of the pair
unblock(blocker_id, blocked_id) ==
    IF DepRows(deps, blocked_id, blocker_id) = {}
    THEN /\ out' = Printed("unblock", <<blocker_id, blocked_id>>,
                           "No blocking relationship found", {})
         /\ UNCHANGED <<buds, deps, log>>
    ELSE /\ \E dep \in DepRows(deps, blocked_id, blocker_id) :
                deps' = deps (-) SetToBag({dep})
         /\ out' = Printed("unblock", <<blocker_id, blocked_id>>, "Removed", {})
         /\ UNCHANGED <<buds, log>>

\* "Verify all buds exist": the position in bud_ids of the first id with no
\* Bud row, 0 if every id has one
RECURSIVE chain_missing(_, _)
chain_missing(bud_ids, i) ==
    IF i > Len(bud_ids) THEN 0
    ELSE IF ~BudFound(bud_ids[i]) THEN i
    ELSE chain_missing(bud_ids, i + 1)

\* the loop without the `existing` lookup: a row for every adjacent pair
RECURSIVE chain_loop_nocheck(_, _, _)
chain_loop_nocheck(bud_ids, i, pending) ==
    IF i > Len(bud_ids) - 1 THEN pending
    ELSE chain_loop_nocheck(bud_ids, i + 1,
             pending (+) SetToBag({BudDependency(bud_ids[i + 1], bud_ids[i])}))

\* "Create chain of dependencies": the rows the loop adds to the session.
\* SessionLocal has autoflush=False (db.py:19), so the `existing` query of
\* every iteration reads the table as it was when the command began; rows
\* added by earlier iterations are pending and not seen.
RECURSIVE chain_loop(_, _, _)
chain_loop(bud_ids, i, pending) ==
    IF i > Len(bud_ids) - 1 THEN pending
    ELSE LET blocker == bud_ids[i]
             blocked == bud_ids[i + 1]
             existing == DepRows(deps, blocked, blocker)
         IN  IF existing = {}
             THEN chain_loop(bud_ids, i + 1,
                      pending (+) SetToBag({BudDependency(blocked, blocker)}))
             ELSE chain_loop(bud_ids, i + 1, pending)

\* chain looking each Bud up only when its edge is made: the edges before
\* the first missing id are committed
RECURSIVE chain_prefix(_, _)
chain_prefix(bud_ids, i) ==
    IF i > Len(bud_ids) THEN bud_ids
    ELSE IF ~BudFound(bud_ids[i]) THEN SubSeq(bud_ids, 1, i - 1)
    ELSE chain_prefix(bud_ids, i + 1)

chain_partial(bud_ids) ==
    LET missing == chain_missing(bud_ids, 1)
        created == chain_loop(chain_prefix(bud_ids, 1), 1, EmptyBag)
    IN  /\ deps' = deps (+) created
        /\ out' = IF missing # 0
                  THEN Printed("chain", SubSeq(bud_ids, 1, missing),
                               "Bud not found", {bud_ids[missing]})
                  ELSE Printed("chain", bud_ids, "Chained",
                               {DepCount(created)})
        /\ UNCHANGED <<buds, log>>

\* chain (cli.py:414-463). When a Bud is missing the command returns from
\* the verification loop: `out` keeps the ids read up to the missing one.
chain(bud_ids) ==
    LET missing == chain_missing(bud_ids, 1)
    IN  IF missing # 0
        THEN /\ out' = Printed("chain", SubSeq(bud_ids, 1, missing),
                               "Bud not found", {bud_ids[missing]})
             /\ UNCHANGED <<buds, deps, log>>
        ELSE LET created == chain_loop(bud_ids, 1, EmptyBag)
             IN  /\ deps' = deps (+) created
                 /\ out' = Printed("chain", bud_ids, "Chained",
                                   {DepCount(created)})
                 /\ UNCHANGED <<buds, log>>

\* ------------------------------------------------------------- queries
\* the subquery without the dependency_type filter
blocked_subq_anytype ==
    {r.bud_id : r \in {x \in BagToSet(deps) :
                          /\ x.depends_on_id \in DOMAIN buds
                          /\ buds[x.depends_on_id] # "bloomed"}}

\* pulse: the scalar subquery, bud_id of every row joined to its depends_on
\* Bud where dependency_type == "blocks" and that Bud's status != "bloomed"
blocked_subq ==
    {r.bud_id : r \in {x \in BagToSet(deps) :
                          /\ x.depends_on_id \in DOMAIN buds
                          /\ x.dependency_type = "blocks"
                          /\ buds[x.depends_on_id] # "bloomed"}}

\* pulse without the anti-join
pulse_buds_unfiltered ==
    {b \in DOMAIN buds : buds[b] = "budding"}

\* pulse: Bud.status == "budding", ~Bud.id.in_(blocked_subq)
pulse_buds ==
    {b \in DOMAIN buds : buds[b] = "budding" /\ b \notin blocked_subq}

pulse ==
    /\ out' = Printed("pulse", << >>,
                      IF pulse_buds = {} THEN "Nothing ready to work on"
                                         ELSE "Ready to bloom", pulse_buds)
    /\ UNCHANGED <<buds, deps, log>>

\* now: the same query, written out a second time in the source
now_blocked_subq ==
    {r.bud_id : r \in {x \in BagToSet(deps) :
                          /\ x.depends_on_id \in DOMAIN buds
                          /\ x.dependency_type = "blocks"
                          /\ buds[x.depends_on_id] # "bloomed"}}

now_buds ==
    {b \in DOMAIN buds : buds[b] = "budding" /\ b \notin now_blocked_subq}

now_alias ==
    /\ out' = Printed("now", << >>,
                      IF now_buds = {} THEN "Nothing ready to work on"
                                       ELSE "Ready to bloom", now_buds)
    /\ UNCHANGED <<buds, deps, log>>

\* blocked: Bud JOIN BudDependency ON Bud.id = bud_id LEFT JOIN BlockingBud
\* ON depends_on_id = BlockingBud.id WHERE dependency_type == "blocks" AND
\* BlockingBud.status != "bloomed", DISTINCT (a row whose outer join finds
\* no BlockingBud has a NULL status and fails the comparison)
blocked_buds ==
    {b \in DOMAIN buds :
        \E r \in BagToSet(deps) :
            /\ r.bud_id = b
            /\ r.dependency_type = "blocks"
            /\ r.depends_on_id \in DOMAIN buds
            /\ buds[r.depends_on_id] # "bloomed"}

\* the inner query without the status filter
blockers_all(bud_id) ==
    {a \in DOMAIN buds :
        \E r \in BagToSet(deps) :
            /\ r.depends_on_id = a
            /\ r.bud_id = bud_id
            /\ r.dependency_type = "blocks"}

\* blocked: the inner query per listed Bud. A legacy Query of one entity
\* returns each Bud once however many rows join to it.
blockers(bud_id) ==
    {a \in DOMAIN buds :
        \E r \in BagToSet(deps) :
            /\ r.depends_on_id = a
            /\ r.bud_id = bud_id
            /\ r.dependency_type = "blocks"
            /\ buds[a] # "bloomed"}

\* the lines `blocked` prints: a Bud and what it is waiting for
blocked_lines ==
    {[bud |-> b, waiting_for |-> blockers(b)] :
        b \in {x \in blocked_buds : blockers(x) # {}}}

blocked ==
    /\ out' = Printed("blocked", << >>,
                      IF blocked_buds = {} THEN "No blocked buds"
                                           ELSE "Blocked buds", blocked_lines)
    /\ UNCHANGED <<buds, deps, log>>

\* ------------------------------------------------------- item references
\* A reference of the command line is modelled by its parts around the
\* first ':' : <<prefix, id>>, where id is <<n>> when int() reads the text
\* as n and << >> when it raises ValueError; <<text>> has no ':'.
Ref(prefix, item_id) == <<prefix, <<item_id>>>>

\* str.lower() on the prefixes and statuses used
lower(prefix) ==
    CASE prefix = "G" -> "g" [] prefix = "T" -> "t"
      [] prefix = "S" -> "s" [] prefix = "B" -> "b"
      [] prefix = "OPEN" -> "open" [] prefix = "Hooked" -> "hooked"
      [] prefix = "Active" -> "active" [] prefix = "DONE" -> "done"
      [] OTHER -> prefix

prefixes == [g |-> "grove", t |-> "trunk", s |-> "stem", b |-> "bud"]

\* raise click.BadParameter(message)
BadParameter(message) ==
    [ok |-> FALSE, item_type |-> "", item_id |-> NULL, message |-> message]

\* parse_item_ref with no handler around int(parts[1])
parse_item_ref_uncaught(ref) ==
    IF Len(ref) < 2
    THEN BadParameter("Invalid format")
    ELSE IF lower(ref[1]) \notin DOMAIN prefixes
    THEN BadParameter("Unknown prefix")
    ELSE IF ref[2] = << >>
    THEN [ok |-> FALSE, item_type |-> "", item_id |-> NULL,
          message |-> "ValueError"]
    ELSE [ok |-> TRUE, item_type |-> prefixes[lower(ref[1])],
          item_id |-> ref[2][1], message |-> ""]

\* parse_item_ref on the parts of the reference
parse_item_ref(ref) ==
    IF Len(ref) < 2
    THEN BadParameter("Invalid format")
    ELSE IF lower(ref[1]) \notin DOMAIN prefixes
    THEN BadParameter("Unknown prefix")
    ELSE IF ref[2] = << >>
    THEN BadParameter("Invalid ID")
    ELSE [ok |-> TRUE, item_type |-> prefixes[lower(ref[1])],
          item_id |-> ref[2][1], message |-> ""]

\* The text of a reference is a sequence of one-character strings.
\* ''.join(chars)
RECURSIVE join(_)
join(chars) == IF chars = << >> THEN "" ELSE Head(chars) \o join(Tail(chars))

\* text.find(ch) + 1: the position of the first ch, 0 when there is none
find(text, ch) ==
    IF \E i \in DOMAIN text : text[i] = ch
    THEN CHOOSE i \in DOMAIN text :
            text[i] = ch /\ \A j \in 1..(i - 1) : text[j] # ch
    ELSE 0

\* text.strip()
RECURSIVE strip(_)
strip(text) ==
    IF text = << >> THEN text
    ELSE IF Head(text) = " " THEN strip(Tail(text))
    ELSE IF text[Len(text)] = " " THEN strip(SubSeq(text, 1, Len(text) - 1))
    ELSE text

digits == <<"0", "1", "2", "3", "4", "5", "6", "7", "8", "9">>

\* the value of a run of decimal digits
RECURSIVE decimal(_)
decimal(text) ==
    IF text = << >> THEN 0
    ELSE 10 * decimal(SubSeq(text, 1, Len(text) - 1))
            + find(digits, text[Len(text)]) - 1

\* int(text): <<n>>, or << >> when it raises ValueError. Blanks around
\* the number and one sign before it are accepted ('_' between digits is
\* too; no text tried has one).
int(text) ==
    LET t == strip(text)
        signed == t # << >> /\ Head(t) \in {"+", "-"}
        body == IF signed THEN Tail(t) ELSE t
    IN  IF body = << >> \/ \E i \in DOMAIN body : find(digits, body[i]) = 0
        THEN << >>
        ELSE IF signed /\ Head(t) = "-" THEN <<0 - decimal(body)>>
        ELSE <<decimal(body)>>

\* cli.py:37-51: `':' in ref`, ref.split(':', 1) and int(parts[1]) on the
\* text of a reference give the parts parse_item_ref decides on
parts(text) ==
    LET colon == find(text, ":")
    IN  IF colon = 0
        THEN <<join(text)>>
        ELSE <<join(SubSeq(text, 1, colon - 1)),
               int(SubSeq(text, colon + 1, Len(text)))>>

\* ------------------------------------------------------------ tidy graft
\* every table of the database
tables == <<buds, bud_cols, deps, log, groves, trunks, stems, fruits,
            tidy_config, pollen>>

\* f'{x}' of an id column
fmt(x) == IF x = NULL THEN "None" ELSE ToString(x)

\* graft returns after printing msg, before any row is added or changed
Abort(msg) ==
    [ok |-> FALSE, msg |-> msg, trunks |-> trunks, stems |-> stems,
     target_type |-> "", target_id |-> NULL]

\* the target is settled: the Trunk and Stem tables with the row created
\* for it (if any), its type and its id
Target(trunk_rows, stem_rows, target_type, target_id) ==
    [ok |-> TRUE, msg |-> "", trunks |-> trunk_rows, stems |-> stem_rows,
     target_type |-> target_type, target_id |-> target_id]

\* cli.py:3569-3597 creating the Trunk whatever --dry-run says
graft_new_trunk_always(item_type, new_trunk, parent, dry_run) ==
    IF item_type # "stem"
    THEN Abort("--new-trunk can only be used when grafting stems")
    ELSE Target(Append(trunks, Trunk(new_trunk, NULL, NULL)), stems,
                "trunk", Len(trunks) + 1)

\* cli.py:3569-3597: --new-trunk TITLE [--parent REF]. A parent_id or
\* grove_id that names no row violates the foreign key when the new Trunk
\* is flushed (line 3592): the IntegrityError leaves get_session by
\* rollback.
graft_new_trunk(item_type, new_trunk, parent, dry_run) ==
    IF item_type # "stem"
    THEN Abort("--new-trunk can only be used when grafting stems")
    ELSE LET given == parent # << >>
             p == IF given THEN parse_item_ref(parent) ELSE BadParameter("")
         IN  IF given /\ ~p.ok
             THEN Abort(p.message)
             ELSE IF given /\ p.item_type \notin {"trunk", "grove"}
             THEN Abort("Parent must be a trunk (t:) or grove (g:)")
             ELSE LET parent_id == IF given /\ p.item_type = "trunk"
                                   THEN p.item_id ELSE NULL
                      grove_id ==
                          IF ~given THEN NULL
                          ELSE IF p.item_type = "grove" THEN p.item_id
                          ELSE IF p.item_id \in DOMAIN trunks
                          THEN trunks[p.item_id].grove_id
                          ELSE NULL
                  IN  IF dry_run
                      THEN Target(trunks, stems, "trunk", NULL)
                      ELSE IF \/ parent_id \notin {NULL} \cup DOMAIN trunks
                              \/ grove_id \notin {NULL} \cup DOMAIN groves
                      THEN Abort("IntegrityError")
                      ELSE Target(Append(trunks,
                                         Trunk(new_trunk, parent_id, grove_id)),
                                  stems, "trunk", Len(trunks) + 1)

\* cli.py:3599-3640: --new-stem TITLE [--parent REF]; the foreign keys as
\* for --new-trunk (flush at line 3635)
graft_new_stem(item_type, new_stem, parent, dry_run) ==
    IF item_type # "bud"
    THEN Abort("--new-stem can only be used when grafting buds")
    ELSE LET given == parent # << >>
             p == IF given THEN parse_item_ref(parent) ELSE BadParameter("")
         IN  IF given /\ ~p.ok
             THEN Abort(p.message)
             ELSE IF given /\ p.item_type \notin {"trunk", "stem"}
             THEN Abort("Parent must be a trunk (t:) or stem (s:)")
             ELSE LET parent_stem_id == IF given /\ p.item_type = "stem"
                                        THEN p.item_id ELSE NULL
                      trunk_id ==
                          IF ~given THEN NULL
                          ELSE IF p.item_type = "trunk" THEN p.item_id
                          ELSE IF p.item_id \in DOMAIN stems
                          THEN stems[p.item_id].trunk_id
                          ELSE NULL
                  IN  IF dry_run
                      THEN Target(trunks, stems, "stem", NULL)
                      ELSE IF \/ trunk_id \notin {NULL} \cup DOMAIN trunks
                              \/ parent_stem_id \notin {NULL} \cup DOMAIN stems
                      THEN Abort("IntegrityError")
                      ELSE Target(trunks,
                                  Append(stems,
                                         Stem(new_stem, trunk_id, parent_stem_id)),
                                  "stem", Len(stems) + 1)

\* cli.py:3642-3665 without the two tests of the target's type
graft_existing_anytype(item_type, target) ==
    LET t == parse_item_ref(target)
    IN  IF ~t.ok
        THEN Abort(t.message)
        ELSE IF ~(\/ t.item_type = "trunk" /\ t.item_id \in DOMAIN trunks
                  \/ t.item_type = "stem" /\ t.item_id \in DOMAIN stems)
        THEN Abort("Target not found")
        ELSE Target(trunks, stems, t.item_type, t.item_id)

\* cli.py:3642-3665: the last reference names the target
graft_existing(item_type, target) ==
    LET t == parse_item_ref(target)
    IN  IF ~t.ok
        THEN Abort(t.message)
        ELSE IF item_type = "stem" /\ t.item_type \notin {"trunk", "stem"}
        THEN Abort("Stems can only be grafted to trunks or parent stems")
        ELSE IF item_type = "bud" /\ t.item_type # "stem"
        THEN Abort("Buds can only be grafted to stems")
        ELSE IF ~(\/ t.item_type = "trunk" /\ t.item_id \in DOMAIN trunks
                  \/ t.item_type = "stem" /\ t.item_id \in DOMAIN stems)
        THEN Abort("Target not found")
        ELSE Target(trunks, stems, t.item_type, t.item_id)

\* cli.py:3679-3723, the branch of one item when --dry-run is not given:
\* moved counts the items found; the rows are the session's objects, so an
\* item sees what the loop did to the rows before it
RECURSIVE graft_items(_, _, _, _, _, _)
graft_items(item_type, items, target_type, target_id, i, done) ==
    IF i > Len(items)
    THEN done
    ELSE LET iid == items[i].item_id
         IN  IF item_type = "stem" /\ iid \in DOMAIN done.stems
             THEN LET item == done.stems[iid]
                      grafted ==
                          IF target_type = "trunk"
                          THEN [item EXCEPT !.trunk_id = target_id,
                                            !.parent_stem_id = NULL]
                          ELSE [item EXCEPT
                                   !.parent_stem_id = target_id,
                                   !.trunk_id =
                                       IF iid = target_id THEN item.trunk_id
                                       ELSE done.stems[target_id].trunk_id]
                      row == ActivityLog("stem", iid, "grafted",
                                 "Moved from trunk:" \o fmt(item.trunk_id)
                                 \o "/parent:" \o fmt(item.parent_stem_id)
                                 \o " to " \o target_type \o ":"
                                 \o fmt(target_id))
                  IN  graft_items(item_type, items, target_type, target_id,
                                  i + 1,
                                  [done EXCEPT !.stems[iid] = grafted,
                                               !.log = Append(@, row),
                                               !.moved = @ + 1])
             ELSE IF item_type = "bud" /\ iid \in DOMAIN done.bud_cols
             THEN LET item == done.bud_cols[iid]
                      row == ActivityLog("bud", iid, "grafted",
                                 "Moved from stem:" \o fmt(item.stem_id)
                                 \o " to stem:" \o fmt(target_id))
                  IN  graft_items(item_type, items, target_type, target_id,
                                  i + 1,
                                  [done EXCEPT !.bud_cols[iid].stem_id = target_id,
                                               !.log = Append(@, row),
                                               !.moved = @ + 1])
             ELSE graft_items(item_type, items, target_type, target_id,
                              i + 1, done)

\* the command line in parsed form, as the console output recalls it
GraftArgs(dry_run, item_types, new_trunk, new_stem, target) ==
    [dry_run |-> dry_run, item_types |-> item_types,
     new_trunk |-> new_trunk # "", new_stem |-> new_stem # "",
     target |-> target]

\* gv tidy graft REFS... [--new-trunk T] [--new-stem T] [--parent REF]
\* [--dry-run]; an option that is not given is "" (<< >> for --parent)
graft(refs, new_trunk, new_stem, parent, dry_run) ==
    LET has_new == new_trunk # "" \/ new_stem # ""
        items_refs == IF has_new THEN refs
                      ELSE SubSeq(refs, 1, Len(refs) - 1)
        items_to_move == [i \in DOMAIN items_refs |->
                             parse_item_ref(items_refs[i])]
        item_types == {items_to_move[i].item_type : i \in DOMAIN items_to_move}
        target == IF has_new \/ Len(refs) < 2
                  THEN BadParameter("")
                  ELSE parse_item_ref(refs[Len(refs)])
        args == GraftArgs(dry_run, item_types, new_trunk, new_stem, target)
        return(msg) == /\ out' = Printed("graft", args, msg, {})
                       /\ UNCHANGED tables
    IN  IF ~has_new /\ Len(refs) < 2
        THEN return("Need at least one item to move and a target")
        ELSE IF \E i \in DOMAIN items_to_move : ~items_to_move[i].ok
        THEN return("Invalid reference")
        ELSE IF Cardinality(item_types) > 1
        THEN return("All items must be the same type")
        ELSE LET item_type == CHOOSE t \in item_types : TRUE
                 plan == IF new_trunk # ""
                         THEN graft_new_trunk(item_type, new_trunk, parent,
                                              dry_run)
                         ELSE IF new_stem # ""
                         THEN graft_new_stem(item_type, new_stem, parent,
                                             dry_run)
                         ELSE graft_existing(item_type, refs[Len(refs)])
                 done == IF dry_run
                         THEN [stems |-> plan.stems, bud_cols |-> bud_cols,
                               log |-> log, moved |-> 0]
                         ELSE graft_items(item_type, items_to_move,
                                          plan.target_type, plan.target_id, 1,
                                          [stems |-> plan.stems,
                                           bud_cols |-> bud_cols,
                                           log |-> log, moved |-> 0])
             IN  IF ~plan.ok
                 THEN return(plan.msg)
                 ELSE /\ trunks' = plan.trunks
                      /\ stems' = done.stems
                      /\ bud_cols' = done.bud_cols
                      /\ log' = done.log
                      /\ out' = IF dry_run
                                THEN Printed("graft", args, "Dry run complete",
                                             {Len(items_to_move)})
                                ELSE Printed("graft", args, "Grafted",
                                             {done.moved})
                      /\ UNCHANGED <<buds, deps, groves, fruits, tidy_config,
                                     pollen>>

\* ------------------------------------------------------------ tidy split
\* the titles used, in the order of str comparison
Titles == <<"Alpha", "Beta">>

\* a.title < b.title
title_lt(a, b) ==
    \E i, j \in DOMAIN Titles : i < j /\ Titles[i] = a /\ Titles[j] = b

\* session.query(Model).filter(Model.column == value).all(): the ids of
\* the rows that pass the filter, in id order
all(rows, column, value) ==
    SelectSeq([i \in 1..Len(rows) |-> i], LAMBDA i : rows[i][column] = value)

\* sorted(children, key=lambda b: b.title): stable, so children of equal
\* title keep the order of the query
RECURSIVE sorted(_, _)
sorted(rows, ids) ==
    IF ids = << >>
    THEN << >>
    ELSE LET before == sorted(rows, SubSeq(ids, 1, Len(ids) - 1))
             x == ids[Len(ids)]
             k == Cardinality({i \in DOMAIN before :
                     ~title_lt(rows[x].title, rows[before[i]].title)})
         IN  SubSeq(before, 1, k) \o <<x>>
                \o SubSeq(before, k + 1, Len(before))

\* the loop with the larger chunks last instead of first
RECURSIVE split_chunks_largelast(_, _, _, _)
split_chunks_largelast(children, n, i, from) ==
    IF i >= n
    THEN << >>
    ELSE LET chunk_size == Len(children) \div n
             remainder == Len(children) % n
             size == chunk_size + (IF i >= n - remainder THEN 1 ELSE 0)
         IN  <<SubSeq(children, from + 1, from + size)>>
                \o split_chunks_largelast(children, n, i + 1, from + size)

\* cli.py:3821-3833 and 3903-3915: for i in range(n), chunk i of the
\* sorted children; from is the loop's `start`
RECURSIVE split_chunks(_, _, _, _)
split_chunks(children, n, i, from) ==
    IF i >= n
    THEN << >>
    ELSE LET chunk_size == Len(children) \div n
             remainder == Len(children) % n
             size == chunk_size + (IF i < remainder THEN 1 ELSE 0)
         IN  <<SubSeq(children, from + 1, from + size)>>
                \o split_chunks(children, n, i + 1, from + size)

\* gv tidy split REF [--auto] [--into N]; --into not given is << >>, given
\* as N it is <<N>>. The groups that --auto prints are read from the
\* labels column, which is not modelled; like every early return it writes
\* nothing.
split(ref, auto, into) ==
    LET r == parse_item_ref(ref)
        n == IF into # << >> /\ into[1] # 0 THEN into[1] ELSE 2
        args == [ref |-> r, auto |-> auto, into |-> into]
        return(msg) == /\ out' = Printed("split", args, msg, << >>)
                       /\ UNCHANGED tables
        suggest(rows, children) ==
            IF children = << >>
            THEN return("Nothing to split")
            ELSE IF auto
            THEN return("Auto-detected groups")
            ELSE IF n < 2
            THEN return("Split must be into at least 2 parts")
            ELSE /\ out' = Printed("split", args, "Suggested split",
                                   split_chunks(sorted(rows, children),
                                                n, 0, 0))
                 /\ log' = log_activity(r.item_type, r.item_id, "split",
                              "Split analysis with auto=False, into="
                              \o (IF into = << >> THEN "None"
                                  ELSE ToString(into[1])))
                 /\ UNCHANGED <<buds, bud_cols, deps, hierarchy,
                                tidy_config, pollen>>
    IN  IF ~r.ok
        THEN return(r.message)
        ELSE IF r.item_type \notin {"trunk", "stem"}
        THEN return("Split only works on trunks (t:) and stems (s:)")
        ELSE IF r.item_type = "trunk"
        THEN IF r.item_id \notin DOMAIN trunks
             THEN return("Trunk not found")
             ELSE suggest(stems,
                          all(stems, "trunk_id", r.item_id))
        ELSE IF r.item_id \notin DOMAIN stems
             THEN return("Stem not found")
             ELSE suggest(bud_cols,
                          all(bud_cols, "stem_id", r.item_id))

\* ------------------------------------------------------------- tidy scan
\* the default of every tidy threshold
DefaultThreshold == 10

\* a TidyConfig row
TidyConfig(key, value) == [key |-> key, value |-> value]

\* get_tidy_threshold(session, key, default)
get_tidy_threshold(key, default) ==
    IF \E config \in tidy_config : config.key = key
    THEN (CHOOSE config \in tidy_config : config.key = key).value
    ELSE default

\* `threshold or fallback`, threshold being << >> (None) or <<T>>: Python
\* takes the fallback for None and for 0
threshold_or(threshold, fallback) ==
    IF threshold # << >> /\ threshold[1] # 0 THEN threshold[1] ELSE fallback

\* the comparison with >= in place of >
is_overgrown_inclusive(count, threshold) == count >= threshold

\* cli.py:3251, 3262, 3279: `if count > threshold`
is_overgrown(count, threshold) == count > threshold

\* session.query(Model).filter(...).count()
count(rows, column, value) ==
    Cardinality({i \in DOMAIN rows : rows[i][column] = value})

\* one entry of the `overgrown` report
Overgrown(id, n, threshold) ==
    [id |-> id, count |-> n, threshold |-> threshold,
     excess |-> n - threshold]

\* gv tidy scan [--threshold T] [SCOPE]; an option that is not given is
\* << >>. The three lists of the report are modelled as sets (the ids are
\* distinct); the thresholds in effect are recalled with the arguments.
scan(threshold, scope) ==
    LET stems_threshold ==
            threshold_or(threshold,
                         get_tidy_threshold("stems_per_trunk", DefaultThreshold))
        buds_threshold ==
            threshold_or(threshold,
                         get_tidy_threshold("buds_per_stem", DefaultThreshold))
        fruits_threshold ==
            threshold_or(threshold,
                         get_tidy_threshold("fruits_per_trunk", DefaultThreshold))
        s == IF scope # << >> THEN parse_item_ref(scope) ELSE BadParameter("")
        trunk_filter == IF scope # << >> THEN s.item_id ELSE NULL
        args == [threshold |-> threshold, trunk_filter |-> trunk_filter,
                 stems_threshold |-> stems_threshold,
                 buds_threshold |-> buds_threshold,
                 fruits_threshold |-> fruits_threshold]
        trunk_query == {t \in DOMAIN trunks :
                           trunk_filter = NULL \/ t = trunk_filter}
        stem_query == {x \in DOMAIN stems :
                          trunk_filter = NULL \/ stems[x].trunk_id = trunk_filter}
        stem_count(t) == count(stems, "trunk_id", t)
        fruit_count(t) == count(fruits, "trunk_id", t)
        bud_count(x) == count(bud_cols, "stem_id", x)
        overgrown ==
            [trunks |-> {Overgrown(t, stem_count(t), stems_threshold) :
                            t \in {t \in trunk_query :
                                      is_overgrown(stem_count(t),
                                                   stems_threshold)}},
             fruits |-> {Overgrown(t, fruit_count(t), fruits_threshold) :
                            t \in {t \in trunk_query :
                                      is_overgrown(fruit_count(t),
                                                   fruits_threshold)}},
             stems |-> {Overgrown(x, bud_count(x), buds_threshold) :
                           x \in {x \in stem_query :
                                     is_overgrown(bud_count(x),
                                                  buds_threshold)}}]
        return(msg) == /\ out' = Printed("scan", args, msg, << >>)
                       /\ UNCHANGED tables
    IN  IF scope # << >> /\ ~s.ok
        THEN return(s.message)
        ELSE IF scope # << >> /\ s.item_type # "trunk"
        THEN return("Scope must be a trunk (t:id)")
        ELSE /\ out' = Printed("scan", args, "Scanned", overgrown)
             /\ log' = log_activity("grove", 0, "tidy_scan",
                          "Scanned with threshold "
                          \o (IF threshold # << >> /\ threshold[1] # 0
                              THEN ToString(threshold[1]) ELSE "default")
                          \o ", found "
                          \o ToString(Cardinality(overgrown.trunks))
                          \o " overgrown trunks, "
                          \o ToString(Cardinality(overgrown.stems))
                          \o " overgrown stems")
             /\ UNCHANGED <<buds, bud_cols, deps, hierarchy, tidy_config,
                            pollen>>

\* ------------------------------------------------------------------- why
\* one level of the hierarchy as `why` prints it
Level(kind, id, direct) == [kind |-> kind, id |-> id, direct |-> direct]

\* session.query(Model).filter(Model.id == id).first() is not None, for an
\* id that is set
linked(rows, id) == id # NULL /\ id \in DOMAIN rows

\* cli.py:539-570: the Stem of the Bud, the Trunk of that Stem and the
\* Grove of that Trunk
why_stem(bud) ==
    IF ~linked(stems, bud.stem_id)
    THEN << >>
    ELSE <<Level("stem", bud.stem_id, FALSE)>> \o
         (IF ~linked(trunks, stems[bud.stem_id].trunk_id)
          THEN << >>
          ELSE <<Level("trunk", stems[bud.stem_id].trunk_id, FALSE)>> \o
               (IF ~linked(groves, trunks[stems[bud.stem_id].trunk_id].grove_id)
                THEN << >>
                ELSE <<Level("grove",
                             trunks[stems[bud.stem_id].trunk_id].grove_id,
                             FALSE)>>))

\* shown_stem, shown_trunk, shown_grove
shown(levels, kind) == \E i \in DOMAIN levels : levels[i].kind = kind

\* the direct Trunk link of the Bud, shown whether or not a Trunk has been
why_trunk_always(bud, levels) ==
    IF ~linked(trunks, bud.trunk_id)
    THEN << >>
    ELSE <<Level("trunk", bud.trunk_id, TRUE)>> \o
         (IF linked(groves, trunks[bud.trunk_id].grove_id)
             /\ ~shown(levels, "grove")
          THEN <<Level("grove", trunks[bud.trunk_id].grove_id, FALSE)>>
          ELSE << >>)

\* cli.py:572-591: the direct Trunk link of the Bud and the Grove of that
\* Trunk
why_trunk(bud, levels) ==
    IF ~linked(trunks, bud.trunk_id) \/ shown(levels, "trunk")
    THEN << >>
    ELSE <<Level("trunk", bud.trunk_id, TRUE)>> \o
         (IF linked(groves, trunks[bud.trunk_id].grove_id)
             /\ ~shown(levels, "grove")
          THEN <<Level("grove", trunks[bud.trunk_id].grove_id, FALSE)>>
          ELSE << >>)

\* cli.py:593-602: the direct Grove link of the Bud
why_grove(bud, levels) ==
    IF linked(groves, bud.grove_id) /\ ~shown(levels, "grove")
    THEN <<Level("grove", bud.grove_id, TRUE)>>
    ELSE << >>

\* gv why BUD_ID. What is printed is the list of levels above the Bud.
why(bud_id) ==
    /\ UNCHANGED tables
    /\ IF bud_id \notin DOMAIN bud_cols
       THEN out' = Printed("why", <<bud_id>>, "Bud not found", << >>)
       ELSE LET bud == bud_cols[bud_id]
                via_stem == why_stem(bud)
                via_trunk == via_stem \o why_trunk(bud, via_stem)
                levels == via_trunk \o why_grove(bud, via_trunk)
            IN  out' = Printed("why", <<bud_id>>,
                               IF bud.stem_id = NULL /\ bud.trunk_id = NULL
                                     /\ bud.grove_id = NULL
                               THEN "not planted"
                               ELSE "",
                               levels)

\* ------------------------------------------------------------- stem link
\* gv stem link STEM_ID BEADS_PATH. The Stem is queried into `br`, and the
\* test that follows reads `s` (cli.py:644), which is no name of the
\* function or of the module: NameError, whether the Stem exists or not.
\* The exception leaves get_session by rollback; lines 645-653 never run.
link(stem_id, beads_path) ==
    /\ out' = Printed("stem link",
                      [stem_id |-> stem_id, beads_path |-> beads_path],
                      "NameError", {})
    /\ UNCHANGED tables

\* --------------------------------------------------------------- context
\* get_item_by_ref(session, item_type, item_id)[0] is not None
ItemFound(item_type, item_id) ==
    \/ item_type = "grove" /\ item_id \in DOMAIN groves
    \/ item_type = "trunk" /\ item_id \in DOMAIN trunks
    \/ item_type = "stem" /\ item_id \in DOMAIN stems
    \/ item_type = "bud" /\ item_id \in DOMAIN bud_cols

\* item.last_checked_at of the row the reference names
last_checked_at(item_type, item_id) ==
    CASE item_type = "grove" -> groves[item_id].last_checked_at
      [] item_type = "trunk" -> trunks[item_id].last_checked_at
      [] item_type = "stem" -> stems[item_id].last_checked_at
      [] item_type = "bud" -> bud_cols[item_id].last_checked_at

\* activity_query.count(): the ActivityLog rows of the item
total_activity(item_type, item_id) ==
    Cardinality({i \in DOMAIN log :
                    log[i].item_type = item_type /\ log[i].item_id = item_id})

\* context that takes every call for one without --peek
context_peek_ignored(ref, peek, brief, now) ==
    LET r == parse_item_ref(ref)
        args == [ref |-> r, peek |-> peek, now |-> now]
    IN  IF ~r.ok \/ ~ItemFound(r.item_type, r.item_id)
        THEN /\ out' = Printed("context", args, "not found", {})
             /\ UNCHANGED tables
        ELSE /\ out' = Printed("context", args, "Context",
                               {last_checked_at(r.item_type, r.item_id)})
             /\ groves' = IF r.item_type = "grove"
                          THEN [groves EXCEPT ![r.item_id].last_checked_at = now]
                          ELSE groves
             /\ trunks' = IF r.item_type = "trunk"
                          THEN [trunks EXCEPT ![r.item_id].last_checked_at = now]
                          ELSE trunks
             /\ stems' = IF r.item_type = "stem"
                         THEN [stems EXCEPT ![r.item_id].last_checked_at = now]
                         ELSE stems
             /\ bud_cols' = IF r.item_type = "bud"
                            THEN [bud_cols EXCEPT ![r.item_id].last_checked_at = now]
                            ELSE bud_cols
             /\ log' = log_activity(r.item_type, r.item_id, "checked", "")
             /\ UNCHANGED <<buds, deps, fruits, tidy_config, pollen>>

\* gv context REF [--peek] [--brief]; now is datetime.utcnow(). What is
\* printed is read from the tables before the update: the old
\* last_checked_at and the number of ActivityLog rows of the item (the
\* count of rows newer than last_checked_at needs created_at, which is not
\* modelled). --brief changes the layout only. The content of the
\* 'checked' row is None, written "".
context(ref, peek, brief, now) ==
    LET r == parse_item_ref(ref)
        args == [ref |-> r, peek |-> peek, now |-> now]
    IN  IF ~r.ok
        THEN /\ out' = Printed("context", args, r.message, {})
             /\ UNCHANGED tables
        ELSE IF ~ItemFound(r.item_type, r.item_id)
        THEN /\ out' = Printed("context", args, "not found", {})
             /\ UNCHANGED tables
        ELSE /\ out' = Printed("context", args, "Context",
                               {last_checked_at(r.item_type, r.item_id),
                                total_activity(r.item_type, r.item_id)})
             /\ IF peek
                THEN UNCHANGED tables
                ELSE /\ groves' =
                          IF r.item_type = "grove"
                          THEN [groves EXCEPT ![r.item_id].last_checked_at = now]
                          ELSE groves
                     /\ trunks' =
                          IF r.item_type = "trunk"
                          THEN [trunks EXCEPT ![r.item_id].last_checked_at = now]
                          ELSE trunks
                     /\ stems' =
                          IF r.item_type = "stem"
                          THEN [stems EXCEPT ![r.item_id].last_checked_at = now]
                          ELSE stems
                     /\ bud_cols' =
                          IF r.item_type = "bud"
                          THEN [bud_cols EXCEPT ![r.item_id].last_checked_at = now]
                          ELSE bud_cols
                     /\ log' = log_activity(r.item_type, r.item_id,
                                            "checked", "")
                     /\ UNCHANGED <<buds, deps, fruits, tidy_config, pollen>>

\* ---------------------------------------------------------------- pollen
\* A new Pollen row: pending, with no seed, no reject reason (None, written
\* "") and no review time. The content, source and confidence columns are
\* not kept.
Pollen ==
    [status |-> "pending", seed_id |-> NULL, reject_reason |-> "",
     reviewed_at |-> NULL]

\* json.loads(meta) succeeds (of the values of --meta that are tried)
json_loads_ok(meta) == meta = "{}"

\* gv pollen add CONTENT [--confidence C] [--meta JSON]; the confidence is
\* counted in tenths
pollen_add(confidence, meta) ==
    LET args == [confidence |-> confidence, meta |-> meta]
    IN
    IF meta # "" /\ ~json_loads_ok(meta)
    THEN /\ out' = Printed("pollen add", args, "Invalid JSON in --meta", {})
         /\ UNCHANGED tables
    ELSE IF confidence # << >> /\ ~(0 <= confidence[1] /\ confidence[1] <= 10)
    THEN /\ out' = Printed("pollen add", args,
                           "Confidence must be between 0.0 and 1.0", {})
         /\ UNCHANGED tables
    ELSE /\ pollen' = Append(pollen, Pollen)
         /\ out' = Printed("pollen add", args, "Added pollen",
                           {Len(pollen) + 1})
         /\ UNCHANGED <<buds, bud_cols, deps, log, hierarchy, tidy_config>>

\* pollen_pollinate without the p.status != "pending" test
pollen_pollinate_again(pollen_id, stem_id, now) ==
    LET args == [pollen_id |-> pollen_id, stem_id |-> stem_id]
    IN
    IF pollen_id \notin DOMAIN pollen
    THEN /\ out' = Printed("pollen pollinate", args, "Pollen not found", {})
         /\ UNCHANGED tables
    ELSE IF stem_id # << >> /\ stem_id[1] # 0 /\ stem_id[1] \notin DOMAIN stems
    THEN /\ out' = Printed("pollen pollinate", args, "Stem not found", {})
         /\ UNCHANGED tables
    ELSE IF stem_id # << >> /\ stem_id[1] \notin DOMAIN stems
    THEN /\ out' = Printed("pollen pollinate", args, "IntegrityError", {})
         /\ UNCHANGED tables
    ELSE /\ buds' = Append(buds, "seed")
         /\ bud_cols' = Append(bud_cols,
                               Bud("t", IF stem_id = << >> THEN NULL
                                                            ELSE stem_id[1]))
         /\ pollen' = [pollen EXCEPT ![pollen_id].status = "seeded",
                                     ![pollen_id].seed_id = Len(buds) + 1,
                                     ![pollen_id].reviewed_at = now]
         /\ log' = log_activity("bud", Len(buds) + 1, "created",
                                "From pollen " \o ToString(pollen_id))
         /\ out' = Printed("pollen pollinate", args, "Pollinated",
                           {Len(buds) + 1})
         /\ UNCHANGED <<deps, hierarchy, tidy_config>>

\* gv pollen pollinate POLLEN_ID [--stem STEM_ID]; now is datetime.utcnow().
\* --stem 0 passes `if stem_id:` unverified and the flush of the Bud then
\* violates the foreign key on stem_id: the session is rolled back.
pollen_pollinate(pollen_id, stem_id, now) ==
    LET args == [pollen_id |-> pollen_id, stem_id |-> stem_id]
    IN
    IF pollen_id \notin DOMAIN pollen
    THEN /\ out' = Printed("pollen pollinate", args, "Pollen not found", {})
         /\ UNCHANGED tables
    ELSE IF pollen[pollen_id].status # "pending"
    THEN /\ out' = Printed("pollen pollinate", args, "Pollen already", {})
         /\ UNCHANGED tables
    ELSE IF stem_id # << >> /\ stem_id[1] # 0 /\ stem_id[1] \notin DOMAIN stems
    THEN /\ out' = Printed("pollen pollinate", args, "Stem not found", {})
         /\ UNCHANGED tables
    ELSE IF stem_id # << >> /\ stem_id[1] \notin DOMAIN stems
    THEN /\ out' = Printed("pollen pollinate", args, "IntegrityError", {})
         /\ UNCHANGED tables
    ELSE /\ buds' = Append(buds, "seed")
         /\ bud_cols' = Append(bud_cols,
                               Bud("t", IF stem_id = << >> THEN NULL
                                                            ELSE stem_id[1]))
         /\ pollen' = [pollen EXCEPT ![pollen_id].status = "seeded",
                                     ![pollen_id].seed_id = Len(buds) + 1,
                                     ![pollen_id].reviewed_at = now]
         /\ log' = log_activity("bud", Len(buds) + 1, "created",
                                "From pollen " \o ToString(pollen_id))
         /\ out' = Printed("pollen pollinate", args, "Pollinated",
                           {Len(buds) + 1})
         /\ UNCHANGED <<deps, hierarchy, tidy_config>>

\* gv pollen reject POLLEN_ID [--reason REASON]; no --reason is ""
pollen_reject(pollen_id, reason, now) ==
    LET args == [pollen_id |-> pollen_id, reason |-> reason]
    IN
    IF pollen_id \notin DOMAIN pollen
    THEN /\ out' = Printed("pollen reject", args, "Pollen not found", {})
         /\ UNCHANGED tables
    ELSE IF pollen[pollen_id].status # "pending"
    THEN /\ out' = Printed("pollen reject", args, "Pollen already", {})
         /\ UNCHANGED tables
    ELSE /\ pollen' = [pollen EXCEPT ![pollen_id].status = "rejected",
                                     ![pollen_id].reject_reason = reason,
                                     ![pollen_id].reviewed_at = now]
         /\ out' = Printed("pollen reject", args, "Rejected", {})
         /\ UNCHANGED <<buds, bud_cols, deps, log, hierarchy, tidy_config>>

\* ----------------------------------------------------------------- beads
\* dict.get(key, default)
get(data, key, default) == IF key \in DOMAIN data THEN data[key] ELSE default

\* map_bead_status_to_task_status
map_bead_status_to_task_status(bead_status) ==
    get([open |-> "inbox", in_progress |-> "active", hooked |-> "active",
         closed |-> "done", done |-> "done", wont_fix |-> "dropped",
         duplicate |-> "dropped"],
        lower(bead_status), "inbox")

\* map_task_status_to_bead_status without the entry for 'done'
map_task_status_to_bead_status_nodone(task_status) ==
    get([inbox |-> "open", active |-> "in_progress", dropped |-> "wont_fix"],
        lower(task_status), "open")

\* map_task_status_to_bead_status
map_task_status_to_bead_status(task_status) ==
    get([inbox |-> "open", active |-> "in_progress", done |-> "closed",
         dropped |-> "wont_fix"],
        lower(task_status), "open")

\* One line of issues.jsonl after line.strip(): "" (a blank line), text
\* that json.loads rejects, a JSON value that is not an object, or a JSON
\* object, of which the keys in `has` are present. Of the keys of an issue
\* only id and status are kept.
Line(kind, has, id, status) ==
    [kind |-> kind, has |-> has, id |-> id, status |-> status]

\* Bead(id=..., status=...)
Bead(id, status) == [id |-> id, status |-> status]

\* data.get(key, default) on the object of a line
data_get(line, key, default) ==
    IF key \in line.has THEN line[key] ELSE default

\* what the loop of read_beads_jsonl has done when it ends
Read(raised, beads) == [raised |-> raised, beads |-> beads]

\* beads.py:72-93: a blank line is skipped; json.loads raises
\* JSONDecodeError on text that is not JSON and the line is skipped; on a
\* JSON value that is not an object data.get raises AttributeError, which
\* the handler does not catch.
RECURSIVE read_lines(_, _, _)
read_lines(lines, i, beads) ==
    IF i > Len(lines)
    THEN Read("", beads)
    ELSE IF lines[i].kind = "blank"
    THEN read_lines(lines, i + 1, beads)
    ELSE IF lines[i].kind = "text"
    THEN read_lines(lines, i + 1, beads)
    ELSE IF lines[i].kind # "object"
    THEN Read("AttributeError", beads)
    ELSE read_lines(lines, i + 1,
            Append(beads, Bead(data_get(lines[i], "id", ""),
                               data_get(lines[i], "status", "open"))))

\* read_beads_jsonl(beads_dir); exists is jsonl_path.exists()
read_beads_jsonl(exists, lines) ==
    IF ~exists
    THEN Read("FileNotFoundError", << >>)
    ELSE read_lines(lines, 1, << >>)

\* ------------------------------------------------------------ get_session
\* db.py:22-38, one step per statement. session.pc is the statement about
\* to run, session.new the rows added to the session and not yet written,
\* session.exc the exception in flight, session.calls the calls that
\* get_session itself has made on the session (lines 33, 35 and 38), and
\* session.result how the with statement ended. rollback() and close()
\* return normally; commit() can raise.

\* what `except Exception` (db.py:34) catches: an error raised by the body
\* or by commit(), not a KeyboardInterrupt or SystemExit
CaughtByExceptException(e) == e \in {"BodyError", "CommitError"}

\* line 30: session = SessionLocal(), then the body runs (line 32)
SessionLocal ==
    /\ session.pc = "idle"
    /\ session' = [pc |-> "body", new |-> << >>, exc |-> "",
                   calls |-> << >>, result |-> ""]
    /\ UNCHANGED log

\* the body: session.add(row)
body_add(row) ==
    /\ session.pc = "body"
    /\ session' = [session EXCEPT !.new = Append(@, row)]
    /\ UNCHANGED log

\* the body: session.commit(), as most commands call it themselves
body_commit ==
    /\ session.pc = "body"
    /\ log' = log \o session.new
    /\ session' = [session EXCEPT !.new = << >>]

\* the body ends normally: control returns after the yield
body_returns ==
    /\ session.pc = "body"
    /\ session' = [session EXCEPT !.pc = "commit"]
    /\ UNCHANGED log

\* the body raises e: line 34 catches it or not
body_raises(e) ==
    /\ session.pc = "body"
    /\ session' = [session EXCEPT
                      !.exc = e,
                      !.pc = IF CaughtByExceptException(e)
                             THEN "except" ELSE "finally"]
    /\ UNCHANGED log

\* line 33: session.commit() writes the pending rows, or raises
session_commit(ok) ==
    /\ session.pc = "commit"
    /\ IF ok
       THEN /\ log' = log \o session.new
            /\ session' = [session EXCEPT !.new = << >>,
                                          !.calls = Append(@, "commit"),
                                          !.pc = "finally"]
       ELSE /\ session' = [session EXCEPT !.exc = "CommitError",
                                          !.calls = Append(@, "commit raised"),
                                          !.pc = "except"]
            /\ UNCHANGED log

\* lines 35-36 with the exception swallowed (no `raise`)
session_rollback_swallow ==
    /\ session.pc = "except"
    /\ session' = [session EXCEPT !.new = << >>, !.exc = "",
                                  !.calls = Append(@, "rollback"),
                                  !.pc = "finally"]
    /\ UNCHANGED log

\* lines 35-36: session.rollback() drops the pending rows; `raise` keeps
\* the exception in flight
session_rollback ==
    /\ session.pc = "except"
    /\ session' = [session EXCEPT !.new = << >>,
                                  !.calls = Append(@, "rollback"),
                                  !.pc = "finally"]
    /\ UNCHANGED log

\* line 38: session.close(); the with statement ends, returning or raising
session_close ==
    /\ session.pc = "finally"
    /\ session' = [session EXCEPT
                      !.new = << >>,
                      !.calls = Append(@, "close"),
                      !.result = IF session.exc = "" THEN "returned"
                                 ELSE session.exc,
                      !.pc = "idle"]
    /\ UNCHANGED log

\* -------------------------------------------------------- specifications
\* the tables after a step stay within nb Bud, nd BudDependency and nl
\* ActivityLog rows
\* what the Bud, dependency and lifecycle commands leave alone
rest == <<hierarchy, tidy_config, pollen, session, procs>>

Within(nb, nd, nl) ==
    /\ Len(buds') <= nb
    /\ DepCount(deps') <= nd
    /\ Len(log') <= nl

\* The dependency commands on a table of Buds. The ids of a command line
\* are those of the Buds that exist or may come to exist.
DepIds == 1..MaxBuds

\* argument lists of `chain` that pass the length test of cli.py:425
ChainArgs == UNION {[1..n -> DepIds] : n \in 2..MaxChain}

NextDeps ==
    \/ add /\ Within(MaxBuds, MaxDeps, 0)
          /\ UNCHANGED rest
    \/ \E a, b \in DepIds : blocks(a, b) /\ Within(MaxBuds, MaxDeps, 0)
          /\ UNCHANGED <<bud_cols, rest>>
    \/ \E a, b \in DepIds : unblock(a, b)
          /\ UNCHANGED <<bud_cols, rest>>
    \/ \E bud_ids \in ChainArgs : chain(bud_ids) /\ Within(MaxBuds, MaxDeps, 0)
          /\ UNCHANGED <<bud_cols, rest>>

SpecDeps == Init /\ [][NextDeps]_vars

\* The lifecycle commands.
LifeIds == 1..LifeBuds

NextLife ==
    \/ add /\ Within(LifeBuds, 0, LifeLog)
          /\ UNCHANGED rest
    \/ \E bud_id \in LifeIds : bloom(bud_id) /\ Within(LifeBuds, 0, LifeLog)
          /\ UNCHANGED <<bud_cols, rest>>
    \/ \E bud_id \in LifeIds : done_alias(bud_id) /\ Within(LifeBuds, 0, LifeLog)
          /\ UNCHANGED <<bud_cols, rest>>
    \/ \E bud_id \in LifeIds : mulch(bud_id) /\ Within(LifeBuds, 0, LifeLog)
          /\ UNCHANGED <<bud_cols, rest>>
    \/ \E bud_id \in LifeIds : start(bud_id) /\ Within(LifeBuds, 0, LifeLog)
          /\ UNCHANGED <<bud_cols, rest>>
    \/ \E bud_id \in LifeIds : plant(bud_id) /\ Within(LifeBuds, 0, LifeLog)
          /\ UNCHANGED <<bud_cols, rest>>

SpecLife == Init /\ [][NextLife]_vars

\* Starting and finishing Buds that block one another.
StartIds == 1..StartBuds

NextStart ==
    \/ add /\ Within(StartBuds, StartDeps, StartLog)
          /\ UNCHANGED rest
    \/ \E bud_id \in StartIds :
          start(bud_id) /\ Within(StartBuds, StartDeps, StartLog)
          /\ UNCHANGED <<bud_cols, rest>>
    \/ \E bud_id \in StartIds :
          bloom(bud_id) /\ Within(StartBuds, StartDeps, StartLog)
          /\ UNCHANGED <<bud_cols, rest>>
    \/ \E a, b \in StartIds :
          blocks(a, b) /\ Within(StartBuds, StartDeps, StartLog)
          /\ UNCHANGED <<bud_cols, rest>>
    \/ \E a, b \in StartIds : unblock(a, b)
          /\ UNCHANGED <<bud_cols, rest>>

SpecStart == Init /\ [][NextStart]_vars

\* The read-only commands on every database within the bounds: any number
\* of Buds up to QBuds in any statuses, any bag of up to QDeps dependency
\* rows between them (self edges, duplicate rows and rows of another
\* dependency_type included; the foreign keys of models.py:195-196 hold).
DepTypes == {"blocks", "relates"}

RowsOver(ids) ==
    [bud_id : ids, depends_on_id : ids, dependency_type : DepTypes]

BagOfRows(s) ==
    [r \in {s[i] : i \in DOMAIN s} |-> Cardinality({i \in DOMAIN s : s[i] = r})]

InitQuery ==
    /\ \E n \in 0..QBuds :
         /\ buds \in [1..n -> Statuses]
         /\ bud_cols = [b \in 1..n |-> Bud("t", NULL)]
         /\ \E k \in 0..QDeps : \E s \in [1..k -> RowsOver(1..n)] :
                deps = BagOfRows(s)
    /\ log = << >>
    /\ groves = << >>
    /\ trunks = << >>
    /\ stems = << >>
    /\ fruits = << >>
    /\ tidy_config = {}
    /\ pollen = << >>
    /\ session = NoSession
    /\ procs = << >>
    /\ out = Printed("none", << >>, "", {})

NextQuery ==
    \/ pulse
          /\ UNCHANGED <<bud_cols, rest>>
    \/ now_alias
          /\ UNCHANGED <<bud_cols, rest>>
    \/ blocked
          /\ UNCHANGED <<bud_cols, rest>>

SpecQuery == InitQuery /\ [][NextQuery]_vars

\* get_session around a body that adds ActivityLog rows: every way the
\* body can end and both outcomes of commit().
SessionRows ==
    {ActivityLog("bud", 1, "log", "note"),
     ActivityLog("bud", 1, "checked", "")}

BodyExceptions == {"BodyError", "KeyboardInterrupt"}

\* what get_session and its body leave alone
session_frame ==
    <<buds, bud_cols, deps, out, hierarchy, tidy_config, pollen, procs>>

NextSession ==
    \/ SessionLocal /\ UNCHANGED session_frame
    \/ \E row \in SessionRows :
          /\ body_add(row)
          /\ Len(log) + Len(session'.new) <= SessLog
          /\ UNCHANGED session_frame
    \/ body_commit /\ UNCHANGED session_frame
    \/ body_returns /\ UNCHANGED session_frame
    \/ \E e \in BodyExceptions : body_raises(e) /\ UNCHANGED session_frame
    \/ \E ok \in BOOLEAN : session_commit(ok) /\ UNCHANGED session_frame
    \/ session_rollback /\ UNCHANGED session_frame
    \/ session_close /\ UNCHANGED session_frame

SpecSession == Init /\ [][NextSession]_vars

\* `graft` on every hierarchy within the bounds: up to GraftTrunks Trunks,
\* GraftStems Stems on them or on none, GraftBuds Buds on the Stems or on
\* none. The references name the rows that may exist, so some are missing.
\* Each behaviour is one command on one such hierarchy.
InitGraft ==
    /\ groves = << >>
    /\ \E nt \in 0..GraftTrunks, ns \in 0..GraftStems, nb \in 0..GraftBuds :
          /\ trunks = [t \in 1..nt |-> Trunk("t", NULL, NULL)]
          /\ \E on \in [1..ns -> {NULL} \cup 1..nt] :
                stems = [x \in 1..ns |-> Stem("s", on[x], NULL)]
          /\ buds = [b \in 1..nb |-> "dormant"]
          /\ \E on \in [1..nb -> {NULL} \cup 1..ns] :
                bud_cols = [b \in 1..nb |-> Bud("t", on[b])]
    /\ deps = EmptyBag
    /\ log = << >>
    /\ fruits = << >>
    /\ tidy_config = {}
    /\ pollen = << >>
    /\ session = NoSession
    /\ procs = << >>
    /\ out = Printed("none", << >>, "", {})

GraftRefs ==
    {Ref("g", 1), Ref("t", 1)}
       \cup {Ref("s", x) : x \in 1..GraftStems}
       \cup {Ref("b", b) : b \in 1..GraftBuds}

GraftLines == UNION {[1..n -> GraftRefs] : n \in 1..GraftLine}

NextGraft ==
    \E refs \in GraftLines, new_trunk \in {"", "Infra"},
       new_stem \in {"", "Subtask"}, parent \in {<< >>, Ref("t", 1)},
       dry_run \in BOOLEAN :
          /\ out.cmd = "none"
          /\ graft(refs, new_trunk, new_stem, parent, dry_run)
          /\ UNCHANGED <<session, procs>>

SpecGraft == InitGraft /\ [][NextGraft]_vars

\* `split` on every Trunk with up to SplitChildren Stems and on every Stem
\* with up to SplitChildren Buds, of any titles, some of them elsewhere.
\* Each behaviour is one command on one such hierarchy.
InitSplit ==
    /\ groves = << >>
    /\ trunks = <<Trunk("t", NULL, NULL)>>
    /\ \/ /\ \E n \in 0..SplitChildren :
                \E title \in [1..n -> Range(Titles)], on \in [1..n -> {NULL, 1}] :
                   stems = [x \in 1..n |-> Stem(title[x], on[x], NULL)]
          /\ buds = << >>
          /\ bud_cols = << >>
       \/ /\ stems = <<Stem("s", 1, NULL)>>
          /\ \E n \in 1..SplitChildren :
                \E title \in [1..n -> Range(Titles)], on \in [1..n -> {NULL, 1}] :
                   /\ buds = [b \in 1..n |-> "dormant"]
                   /\ bud_cols = [b \in 1..n |-> Bud(title[b], on[b])]
    /\ deps = EmptyBag
    /\ log = << >>
    /\ fruits = << >>
    /\ tidy_config = {}
    /\ pollen = << >>
    /\ session = NoSession
    /\ procs = << >>
    /\ out = Printed("none", << >>, "", {})

SplitRefs == {Ref("t", 1), Ref("s", 1), Ref("s", 2), Ref("b", 1)}

SplitInto == {<< >>} \cup {<<k>> : k \in 0..SplitParts}

NextSplit ==
    \E ref \in SplitRefs, auto \in BOOLEAN, into \in SplitInto :
       /\ out.cmd = "none"
       /\ split(ref, auto, into)
       /\ UNCHANGED <<session, procs>>

SpecSplit == InitSplit /\ [][NextSplit]_vars

\* `scan` on every database within the bounds: Trunks with Stems and
\* Fruits, Stems with Buds, each threshold stored or not; and on the Trunk
\* with two Stems more than the default threshold. Each behaviour is one
\* command on one such database.
TidyKeys == {"stems_per_trunk", "buds_per_stem", "fruits_per_trunk"}

InitScan ==
    /\ groves = << >>
    /\ \/ \E nt \in 0..ScanTrunks, ns \in 0..ScanStems,
             nb \in 0..ScanBuds, nf \in 0..ScanFruits :
             /\ trunks = [t \in 1..nt |-> Trunk("t", NULL, NULL)]
             /\ \E on \in [1..ns -> {NULL} \cup 1..nt] :
                   stems = [x \in 1..ns |-> Stem("s", on[x], NULL)]
             /\ buds = [b \in 1..nb |-> "dormant"]
             /\ \E on \in [1..nb -> {NULL} \cup 1..ns] :
                   bud_cols = [b \in 1..nb |-> Bud("t", on[b])]
             /\ \E on \in [1..nf -> 1..nt] :
                   fruits = [f \in 1..nf |-> [trunk_id |-> on[f]]]
       \/ /\ trunks = <<Trunk("t", NULL, NULL)>>
          /\ stems = [x \in 1..(DefaultThreshold + 2) |-> Stem("s", 1, NULL)]
          /\ buds = << >>
          /\ bud_cols = << >>
          /\ fruits = << >>
    /\ \E stored \in SUBSET TidyKeys :
          tidy_config = {TidyConfig(key, 1) : key \in stored}
    /\ deps = EmptyBag
    /\ log = << >>
    /\ pollen = << >>
    /\ session = NoSession
    /\ procs = << >>
    /\ out = Printed("none", << >>, "", {})

ScanThresholds == {<< >>} \cup {<<T>> : T \in -1..ScanMaxT}

ScanScopes == {<< >>, Ref("t", 1), Ref("s", 1)}

NextScan ==
    \E threshold \in ScanThresholds, scope \in ScanScopes :
       /\ out.cmd = "none"
       /\ scan(threshold, scope)
       /\ UNCHANGED <<session, procs>>

SpecScan == InitScan /\ [][NextScan]_vars

\* `context` on a database where each of the four kinds of item exists or
\* not, never checked before.
InitContext ==
    /\ \E n \in 0..1 : groves = [g \in 1..n |-> [last_checked_at |-> NULL]]
    /\ \E n \in 0..1 : trunks = [t \in 1..n |-> Trunk("t", NULL, NULL)]
    /\ \E n \in 0..1 : stems = [x \in 1..n |-> Stem("s", NULL, NULL)]
    /\ \E n \in 0..CtxBuds :
          /\ buds = [b \in 1..n |-> "dormant"]
          /\ bud_cols = [b \in 1..n |-> Bud("t", NULL)]
    /\ deps = EmptyBag
    /\ log = << >>
    /\ fruits = << >>
    /\ tidy_config = {}
    /\ pollen = << >>
    /\ session = NoSession
    /\ procs = << >>
    /\ out = Printed("none", << >>, "", {})

ContextRefs ==
    {Ref("g", 1), Ref("t", 1), Ref("s", 1), <<"b1">>}
       \cup {Ref("b", b) : b \in 1..CtxBuds}

NextContext ==
    \E ref \in ContextRefs, peek \in BOOLEAN, brief \in BOOLEAN,
       now \in 1..CtxTimes :
          /\ context(ref, peek, brief, now)
          /\ Len(log') <= CtxLog
          /\ UNCHANGED <<session, procs>>

SpecContext == InitContext /\ [][NextContext]_vars

\* The pollen commands on a database with or without a Stem.
InitPollen ==
    /\ \E n \in 0..1 : stems = [x \in 1..n |-> Stem("s", NULL, NULL)]
    /\ buds = << >>
    /\ bud_cols = << >>
    /\ deps = EmptyBag
    /\ log = << >>
    /\ groves = << >>
    /\ trunks = << >>
    /\ fruits = << >>
    /\ tidy_config = {}
    /\ pollen = << >>
    /\ session = NoSession
    /\ procs = << >>
    /\ out = Printed("none", << >>, "", {})

PollenIds == 1..PollenRows

PollenStems == {<< >>, <<0>>, <<1>>, <<2>>}

NextPollen ==
    \/ \E confidence \in {<< >>, <<5>>, <<11>>}, meta \in {"", "{}", "{"} :
          /\ pollen_add(confidence, meta)
          /\ Len(pollen') <= PollenRows
          /\ UNCHANGED <<session, procs>>
    \/ \E pollen_id \in PollenIds, stem_id \in PollenStems,
          now \in 1..PollenTimes :
          /\ pollen_pollinate(pollen_id, stem_id, now)
          /\ UNCHANGED <<session, procs>>
    \/ \E pollen_id \in PollenIds, reason \in {"", "dup"},
          now \in 1..PollenTimes :
          /\ pollen_reject(pollen_id, reason, now)
          /\ UNCHANGED <<session, procs>>

SpecPollen == InitPollen /\ [][NextPollen]_vars

\* Every command of the model that writes the ActivityLog, in any order,
\* on one Trunk with a Stem, a loose Stem, a Bud and a Pollen.
InitActivity ==
    /\ groves = << >>
    /\ trunks = <<Trunk("t", NULL, NULL)>>
    /\ stems = <<Stem("Alpha", 1, NULL), Stem("Beta", NULL, NULL)>>
    /\ buds = <<"seed">>
    /\ bud_cols = <<Bud("t", 1)>>
    /\ deps = EmptyBag
    /\ log = << >>
    /\ fruits = << >>
    /\ tidy_config = {}
    /\ pollen = <<Pollen>>
    /\ session = NoSession
    /\ procs = << >>
    /\ out = Printed("none", << >>, "", {})

ActivityIds == 1..2

NextActivity ==
    /\ \/ \E bud_id \in ActivityIds :
             bloom(bud_id) /\ UNCHANGED <<bud_cols, hierarchy, tidy_config, pollen>>
       \/ \E bud_id \in ActivityIds :
             done_alias(bud_id) /\ UNCHANGED <<bud_cols, hierarchy, tidy_config, pollen>>
       \/ \E bud_id \in ActivityIds :
             mulch(bud_id) /\ UNCHANGED <<bud_cols, hierarchy, tidy_config, pollen>>
       \/ \E bud_id \in ActivityIds :
             start(bud_id) /\ UNCHANGED <<bud_cols, hierarchy, tidy_config, pollen>>
       \/ \E bud_id \in ActivityIds :
             plant(bud_id) /\ UNCHANGED <<bud_cols, hierarchy, tidy_config, pollen>>
       \/ \E refs \in {<<Ref("b", 1), Ref("s", 2)>>, <<Ref("s", 2), Ref("t", 1)>>},
             dry_run \in BOOLEAN :
             graft(refs, "", "", << >>, dry_run)
       \/ split(Ref("t", 1), FALSE, <<2>>)
       \/ scan(<<1>>, << >>)
       \/ \E ref \in {Ref("b", 1), Ref("s", 1)}, peek \in BOOLEAN :
             context(ref, peek, FALSE, 1)
       \/ pollen_pollinate(1, << >>, 1)
    /\ Len(log') <= ActLog
    /\ UNCHANGED <<session, procs>>

SpecActivity == InitActivity /\ [][NextActivity]_vars

\* The helpers of beads.py, each applied once to every input within the
\* bounds: the statuses of both vocabularies, in other cases too, and
\* strings of neither; files of up to BeadsLines lines of every kind.
InitBeads ==
    /\ buds = << >>
    /\ bud_cols = << >>
    /\ deps = EmptyBag
    /\ log = << >>
    /\ groves = << >>
    /\ trunks = << >>
    /\ stems = << >>
    /\ fruits = << >>
    /\ tidy_config = {}
    /\ pollen = << >>
    /\ session = NoSession
    /\ procs = << >>
    /\ out = Printed("none", << >>, "", {})

TaskStatuses == {"inbox", "active", "done", "dropped"}

BeadStatuses ==
    {"open", "in_progress", "hooked", "closed", "done", "wont_fix",
     "duplicate"}

StatusInputs ==
    TaskStatuses \cup BeadStatuses
       \cup {"OPEN", "Hooked", "Active", "DONE", "blocked", ""}

JsonlLines ==
    {Line("blank", {}, "", ""), Line("text", {}, "", ""),
     Line("value", {}, "", ""), Line("object", {}, "", ""),
     Line("object", {"id", "status"}, "gt-1", "closed")}

JsonlFiles == UNION {[1..n -> JsonlLines] : n \in 0..BeadsLines}

NextBeads ==
    /\ out.cmd = "none"
    /\ UNCHANGED <<tables, session, procs>>
    /\ \/ \E bead_status \in StatusInputs :
             out' = Printed("map_bead_status_to_task_status", <<bead_status>>,
                            map_bead_status_to_task_status(bead_status), {})
       \/ \E task_status \in StatusInputs :
             out' = Printed("map_task_status_to_bead_status", <<task_status>>,
                            map_task_status_to_bead_status(task_status), {})
       \/ \E exists \in BOOLEAN, lines \in JsonlFiles :
             out' = Printed("read_beads_jsonl",
                            [exists |-> exists, lines |-> lines], "",
                            {read_beads_jsonl(exists, lines)})

SpecBeads == InitBeads /\ [][NextBeads]_vars

\* parse_item_ref on every text of up to RefLen characters of RefChars,
\* and get_item_by_ref on one row of each kind, each applied once.
InitRef ==
    /\ groves = <<[last_checked_at |-> NULL]>>
    /\ trunks = <<Trunk("t", NULL, NULL)>>
    /\ stems = <<Stem("Test Branch", NULL, NULL)>>
    /\ buds = <<"seed">>
    /\ bud_cols = <<Bud("t", NULL)>>
    /\ deps = EmptyBag
    /\ log = << >>
    /\ fruits = << >>
    /\ tidy_config = {}
    /\ pollen = << >>
    /\ session = NoSession
    /\ procs = << >>
    /\ out = Printed("none", << >>, "", {})

RefChars == {"b", "r", "S", ":", "1", "2", "-", " "}

RefTexts == UNION {[1..n -> RefChars] : n \in 0..RefLen}

NextRef ==
    /\ out.cmd = "none"
    /\ UNCHANGED <<tables, session, procs>>
    /\ \/ \E text \in RefTexts :
             out' = Printed("parse_item_ref", text, "",
                            {parse_item_ref(parts(text))})
       \/ \E item_type \in {"grove", "trunk", "stem", "branch", "bud"},
             item_id \in 1..2 :
             out' = Printed("get_item_by_ref",
                            [item_type |-> item_type, item_id |-> item_id],
                            "", {ItemFound(item_type, item_id)})

SpecRef == InitRef /\ [][NextRef]_vars

\* `why` on a Bud with every combination of links to up to WhyRows Stems,
\* Trunks and Groves, themselves linked in every way. Each behaviour is
\* one command on one such hierarchy.
InitWhy ==
    /\ \E ng \in 0..WhyRows, nt \in 0..WhyRows, ns \in 0..1 :
          /\ groves = [g \in 1..ng |-> [last_checked_at |-> NULL]]
          /\ \E of \in [1..nt -> {NULL} \cup 1..ng] :
                trunks = [t \in 1..nt |-> Trunk("t", NULL, of[t])]
          /\ \E on \in [1..ns -> {NULL} \cup 1..nt] :
                stems = [x \in 1..ns |-> Stem("s", on[x], NULL)]
          /\ \E stem_id \in {NULL} \cup 1..ns, trunk_id \in {NULL} \cup 1..nt,
                grove_id \in {NULL} \cup 1..ng :
                bud_cols = <<[Bud("t", stem_id) EXCEPT !.trunk_id = trunk_id,
                                                       !.grove_id = grove_id]>>
    /\ buds = <<"seed">>
    /\ deps = EmptyBag
    /\ log = << >>
    /\ fruits = << >>
    /\ tidy_config = {}
    /\ pollen = << >>
    /\ session = NoSession
    /\ procs = << >>
    /\ out = Printed("none", << >>, "", {})

NextWhy ==
    \E bud_id \in 1..2 :
       /\ out.cmd = "none"
       /\ why(bud_id)
       /\ UNCHANGED <<session, procs>>

SpecWhy == InitWhy /\ [][NextWhy]_vars

\* `stem link` on up to LinkStems Stems of any titles, with an absolute
\* and a relative path, for Stems that exist and one that does not.
InitLink ==
    /\ \E n \in 0..LinkStems :
          \E title \in [1..n -> Range(Titles)] :
             stems = [x \in 1..n |-> Stem(title[x], NULL, NULL)]
    /\ buds = << >>
    /\ bud_cols = << >>
    /\ deps = EmptyBag
    /\ log = << >>
    /\ groves = << >>
    /\ trunks = << >>
    /\ fruits = << >>
    /\ tidy_config = {}
    /\ pollen = << >>
    /\ session = NoSession
    /\ procs = << >>
    /\ out = Printed("none", << >>, "", {})

LinkPaths == {"/repo/.beads", "../shared/.beads"}

NextLink ==
    \E stem_id \in 1..(LinkStems + 1), beads_path \in LinkPaths :
       /\ link(stem_id, beads_path)
       /\ UNCHANGED <<session, procs>>

SpecLink == InitLink /\ [][NextLink]_vars

\* RaceProcs processes, each running one `blocks` on the same database of
\* RaceBuds Buds, their statements interleaved in every way.
InitRace ==
    /\ buds = [b \in 1..RaceBuds |-> "seed"]
    /\ bud_cols = [b \in 1..RaceBuds |-> Bud("t", NULL)]
    /\ deps = EmptyBag
    /\ log = << >>
    /\ groves = << >>
    /\ trunks = << >>
    /\ stems = << >>
    /\ fruits = << >>
    /\ tidy_config = {}
    /\ pollen = << >>
    /\ session = NoSession
    /\ procs = [p \in 1..RaceProcs |-> Proc("idle", NULL, NULL)]
    /\ out = Printed("none", << >>, "", {})

race_frame == <<bud_cols, hierarchy, tidy_config, pollen, session>>

NextRace ==
    \E p \in 1..RaceProcs :
       \/ \E blocker_id, blocked_id \in 1..(RaceBuds + 1) :
             blocks_buds(p, blocker_id, blocked_id) /\ UNCHANGED race_frame
       \/ blocks_existing(p) /\ UNCHANGED race_frame
       \/ blocks_commit(p) /\ UNCHANGED race_frame

SpecRace == InitRace /\ [][NextRace]_vars

\* ------------------------------------------------------------ properties
\* Bud a is an unresolved blocker of Bud b: some row with bud_id = b and
\* depends_on_id = a has dependency_type 'blocks', and a is not bloomed
Unresolved(b, a) ==
    /\ buds[a] # "bloomed"
    /\ \E r \in BagToSet(deps) :
          r.bud_id = b /\ r.depends_on_id = a /\ r.dependency_type = "blocks"

\* C1: pulse, and its alias now, list Bud B if and only if B is budding and
\* no 'blocks' row of B points to a Bud that is not bloomed.
C1_PulseIffBuddingAndUnblocked ==
    out.cmd \in {"pulse", "now"} =>
        \A B \in DOMAIN buds :
            B \in out.shown <=>
                /\ buds[B] = "budding"
                /\ ~ \E A \in DOMAIN buds : Unresolved(B, A)

\* pulse ran on a table where one budding Bud is held back by a blocker and
\* another is listed although it has a dependency row
C1_Witness ==
    /\ out.cmd = "pulse"
    /\ \E B \in DOMAIN buds : \E A \in DOMAIN buds :
          buds[B] = "budding" /\ B \notin out.shown /\ Unresolved(B, A)
    /\ \E B \in out.shown : \E r \in BagToSet(deps) : r.bud_id = B

\* C2: blocked lists Bud B if and only if B has a 'blocks' row to a Bud that
\* is not bloomed; the blockers shown for B are exactly those Buds; a Bud
\* without dependency rows is never listed.
C2_BlockedListsUnresolved ==
    out.cmd = "blocked" =>
        /\ \A B \in DOMAIN buds :
              (\E l \in out.shown : l.bud = B) <=>
                  (\E A \in DOMAIN buds : Unresolved(B, A))
        /\ \A l \in out.shown :
              /\ l.waiting_for = {A \in DOMAIN buds : Unresolved(l.bud, A)}
              /\ \E r \in BagToSet(deps) : r.bud_id = l.bud

\* blocked listed a Bud one of whose blockers has bloomed and one has not
C2_Witness ==
    /\ out.cmd = "blocked"
    /\ \E l \in out.shown : \E A \in DOMAIN buds :
          /\ A \notin l.waiting_for
          /\ buds[A] = "bloomed"
          /\ DepRows(deps, l.bud, A) # {}
          /\ l.waiting_for # {}

\* C3: no Bud is listed by both pulse and blocked on the same tables.
C3_PulseAndBlockedDisjoint ==
    /\ out.cmd \in {"pulse", "now"} =>
          out.shown \cap {l.bud : l \in blocked_lines} = {}
    /\ out.cmd = "blocked" =>
          {l.bud : l \in out.shown} \cap (pulse_buds \cup now_buds) = {}

\* pulse listed a Bud on tables where blocked lists a budding Bud
C3_Witness ==
    /\ out.cmd = "pulse"
    /\ out.shown # {}
    /\ \E l \in blocked_lines : buds[l.bud] = "budding"

\* C4: after any sequence of blocks, chain and unblock no BudDependency row
\* has bud_id equal to depends_on_id.
C4_NoSelfDependency ==
    \A r \in BagToSet(deps) : r.bud_id # r.depends_on_id

\* C5: after any sequence of blocks, chain and unblock there are never two
\* BudDependency rows with the same (bud_id, depends_on_id) pair.
C5_NoDuplicatePair ==
    \A b, a \in DOMAIN buds :
        /\ Cardinality(DepRows(deps, b, a)) <= 1
        /\ \A r \in DepRows(deps, b, a) : CopiesIn(r, deps) <= 1

\* C6: blocks(x, x) for an existing Bud x is rejected and leaves the
\* BudDependency table, the Buds and the ActivityLog as they were.
C6_SelfBlockNoSideEffects ==
    [][(/\ out'.cmd = "blocks"
        /\ out'.args[1] = out'.args[2]
        /\ out'.args[1] \in DOMAIN buds)
       => (/\ out'.msg = "A bud cannot block itself"
           /\ deps' = deps
           /\ buds' = buds
           /\ log' = log)]_vars

\* blocks(x, x) was rejected while x blocks another Bud and the log has rows
C6_Witness ==
    /\ out.cmd = "blocks"
    /\ out.msg = "A bud cannot block itself"
    /\ \E b \in DOMAIN buds : DepRows(deps, b, out.args[1]) # {}
    /\ log # << >>

\* the ids of a sequence are pairwise different
Distinct(ids) == \A i, j \in DOMAIN ids : i # j => ids[i] # ids[j]

\* C7: chain is idempotent: a second chain(ids) right after a successful
\* chain(ids) creates no row; chain(a, b, c) on three distinct Buds and an
\* empty table leaves exactly the rows a blocks b and b blocks c.
C7_ChainIdempotent ==
    [][/\ (/\ out.cmd = "chain" /\ out.msg = "Chained"
           /\ out'.cmd = "chain" /\ out'.args = out.args)
          => (deps' = deps /\ out'.msg = "Chained" /\ out'.shown = {0})
       /\ (/\ out'.cmd = "chain" /\ out'.msg = "Chained"
           /\ out' # out
           /\ Len(out'.args) = 3 /\ Distinct(out'.args)
           /\ deps = EmptyBag)
          => deps' = SetToBag({BudDependency(out'.args[2], out'.args[1]),
                               BudDependency(out'.args[3], out'.args[2])})
      ]_vars

\* chain(a, b, c) on three distinct Buds found both rows and created none
C7_Witness ==
    /\ out.cmd = "chain"
    /\ out.msg = "Chained"
    /\ out.shown = {0}
    /\ Len(out.args) = 3
    /\ Distinct(out.args)
    /\ deps = SetToBag({BudDependency(out.args[2], out.args[1]),
                        BudDependency(out.args[3], out.args[2])})

\* chain reported a missing Bud that comes after at least two existing ones
\* (out.args is the list up to the missing id)
ChainFailedLate ==
    /\ out.cmd = "chain"
    /\ out.msg = "Bud not found"
    /\ Len(out.args) >= 3

\* C8 as stated: when a later id of chain does not exist, the edges between
\* the existing adjacent Buds before it are still created.
C8_PartialChainCreated ==
    ChainFailedLate =>
        \A i \in 1..(Len(out.args) - 2) :
            DepRows(deps, out.args[i + 1], out.args[i]) # {}

\* C8 amended: when any id given to chain does not exist, the failure is
\* reported and no BudDependency row is created.
C8_ChainAllOrNothing ==
    [][(out'.cmd = "chain" /\ out'.msg = "Bud not found") => deps' = deps]_vars

\* chain failed on a later id and the edge between the first two is absent
C8_Witness ==
    /\ ChainFailedLate
    /\ out.args[1] # out.args[2]
    /\ DepRows(deps, out.args[2], out.args[1]) = {}

\* C9: while A blocks B and A is not bloomed, start does not move B to
\* 'budding'.
C9_StartWaitsForBlockers ==
    [][\A B \in DOMAIN buds :
          (/\ out'.cmd = "start" /\ out'.args = <<B>>
           /\ buds[B] # "budding" /\ buds'[B] = "budding")
          => ~ \E A \in DOMAIN buds : Unresolved(B, A)]_vars

\* position of a status in the lifecycle seed -> dormant -> budding ->
\* bloomed | mulch
Stage(status) ==
    CASE status = "seed" -> 1
      [] status = "dormant" -> 2
      [] status = "budding" -> 3
      [] status \in {"bloomed", "mulch"} -> 4

\* C10: a Bud never moves back to an earlier stage of the lifecycle and
\* never leaves 'bloomed' or 'mulch'.
C10_LifecycleForwardOnly ==
    [][\A b \in DOMAIN buds :
          /\ Stage(buds'[b]) >= Stage(buds[b])
          /\ buds[b] \in {"bloomed", "mulch"} => buds'[b] = buds[b]]_vars

\* the calls of get_session on its session, once the with statement ended
Ended == session.pc = "idle" /\ session.result # ""

CallCount(c) ==
    Cardinality({i \in DOMAIN session.calls : session.calls[i] = c})

\* the calls after which the session is rolled back, then closed
RolledBackThenClosed ==
    /\ Len(session.calls) >= 2
    /\ SubSeq(session.calls, Len(session.calls) - 1, Len(session.calls))
          = <<"rollback", "close">>

\* C11 as stated: a body that completes normally is followed by commit,
\* then close; whenever the body or the commit raises, the session is rolled
\* back, then closed, and the same exception propagates; on every path the
\* session is closed exactly once and never both committed and rolled back.
C11_RaiseAlwaysRollsBack ==
    Ended =>
       /\ session.exc = "" => session.calls = <<"commit", "close">>
       /\ session.exc # "" =>
             RolledBackThenClosed /\ session.result = session.exc
       /\ CallCount("close") = 1
       /\ ~(CallCount("commit") > 0 /\ CallCount("rollback") > 0)

\* C11, amended: the rollback happens for what `except Exception` catches;
\* a KeyboardInterrupt or SystemExit from the body closes the session
\* without commit or rollback, and propagates.
C11_CommitOrRollbackThenClose ==
    /\ CallCount("close") <= 1
    /\ ~(CallCount("commit") > 0 /\ CallCount("rollback") > 0)
    /\ Ended =>
          /\ CallCount("close") = 1
          /\ session.result = (IF session.exc = "" THEN "returned"
                               ELSE session.exc)
          /\ session.exc = "" => session.calls = <<"commit", "close">>
          /\ session.exc = "BodyError" =>
                session.calls = <<"rollback", "close">>
          /\ session.exc = "CommitError" =>
                session.calls = <<"commit raised", "rollback", "close">>
          /\ session.exc = "KeyboardInterrupt" =>
                session.calls = <<"close">>

\* a commit that raised, with rows pending, has ended in rollback and close
\* and the rows were not written
C11_Witness ==
    /\ Ended
    /\ session.exc = "CommitError"
    /\ session.result = "CommitError"
    /\ session.calls = <<"commit raised", "rollback", "close">>
    /\ log = << >>

\* C12: a `graft --dry-run`, whatever its arguments, leaves every table as
\* it was: no Trunk or Stem row created, no Stem or Bud moved, no
\* ActivityLog row added.
C12_DryRunChangesNothing ==
    [][(out'.cmd = "graft" /\ out'.args.dry_run) => UNCHANGED tables]_vars

\* a dry run of two Stems onto a new Trunk has run to its end, and there is
\* still no Trunk and no ActivityLog row
C12_Witness ==
    /\ out.cmd = "graft"
    /\ out.args.dry_run
    /\ out.args.new_trunk
    /\ out.msg = "Dry run complete"
    /\ out.shown = {2}
    /\ Len(stems) = 2
    /\ trunks = << >>
    /\ log = << >>

\* the row a parsed reference names exists
RefFound(r) ==
    \/ r.item_type = "grove" /\ r.item_id \in DOMAIN groves
    \/ r.item_type = "trunk" /\ r.item_id \in DOMAIN trunks
    \/ r.item_type = "stem" /\ r.item_id \in DOMAIN stems
    \/ r.item_type = "bud" /\ r.item_id \in DOMAIN buds

\* the validation failures of a graft command line: items of more than one
\* type; a target (new or named) of a type the items cannot be grafted to;
\* a named target that does not exist
GraftInvalid(args) ==
    \/ Cardinality(args.item_types) > 1
    \/ args.new_trunk /\ args.item_types = {"bud"}
    \/ ~args.new_trunk /\ args.new_stem /\ args.item_types = {"stem"}
    \/ /\ ~args.new_trunk /\ ~args.new_stem /\ args.target.ok
       /\ \/ args.item_types = {"bud"} /\ args.target.item_type # "stem"
          \/ /\ args.item_types = {"stem"}
             /\ args.target.item_type \notin {"trunk", "stem"}
          \/ ~RefFound(args.target)

RECURSIVE Flatten(_)
Flatten(chunks) ==
    IF chunks = << >> THEN << >>
    ELSE Head(chunks) \o Flatten(Tail(chunks))

\* the children of the Trunk or Stem a split was asked for
ChildrenOf(r) ==
    IF r.item_type = "trunk"
    THEN {x \in DOMAIN stems : stems[x].trunk_id = r.item_id}
    ELSE {b \in DOMAIN bud_cols : bud_cols[b].stem_id = r.item_id}

ChildTitle(r, id) ==
    IF r.item_type = "trunk" THEN stems[id].title ELSE bud_cols[id].title

\* C14: `tidy split --into K` with K >= 2 on N children suggests exactly K
\* groups; put one after the other they are the children, each once, in
\* title order (so the groups are contiguous slices of the sorted children
\* and their sizes sum to N); group i has N div K members, and one more
\* exactly when i is among the first N mod K.
C14_SplitIsBalancedPartition ==
    (/\ out.cmd = "split"
     /\ out.msg = "Suggested split"
     /\ out.args.into # << >>
     /\ out.args.into[1] >= 2) =>
        LET K == out.args.into[1]
            chunks == out.shown
            line == Flatten(chunks)
            children == ChildrenOf(out.args.ref)
            N == Cardinality(children)
        IN  /\ Len(chunks) = K
            /\ Len(line) = N
            /\ Range(line) = children
            /\ \A i, j \in DOMAIN line :
                  i < j => ~title_lt(ChildTitle(out.args.ref, line[j]),
                                     ChildTitle(out.args.ref, line[i]))
            /\ \A i \in 1..K :
                  Len(chunks[i]) = (N \div K) + (IF i <= N % K THEN 1 ELSE 0)
            /\ \A i, j \in 1..K :
                  Len(chunks[i]) - Len(chunks[j]) \in {-1, 0, 1}

\* four children of two titles, not in title order, were split three ways
\* into groups of 2, 1 and 1
C14_Witness ==
    /\ out.cmd = "split"
    /\ out.msg = "Suggested split"
    /\ out.args.into = <<3>>
    /\ out.args.ref.item_type = "trunk"
    /\ Len(stems) = 4
    /\ stems[1].title = "Beta"
    /\ stems[4].title = "Alpha"
    /\ Len(out.shown) = 3
    /\ Len(out.shown[1]) = 2
    /\ Len(out.shown[2]) = 1
    /\ Len(out.shown[3]) = 1
    /\ out.shown[1][1] = 4

\* a scan ran to its end
Scanned == out.cmd = "scan" /\ out.msg = "Scanned"

\* the rows a scan looks at: all, or those of the Trunk it is scoped to
ScannedTrunks ==
    {t \in DOMAIN trunks :
        out.args.trunk_filter = NULL \/ t = out.args.trunk_filter}

ScannedStems ==
    {x \in DOMAIN stems :
        out.args.trunk_filter = NULL
           \/ stems[x].trunk_id = out.args.trunk_filter}

StemsOn(t) == Cardinality({x \in DOMAIN stems : stems[x].trunk_id = t})
FruitsOn(t) == Cardinality({f \in DOMAIN fruits : fruits[f].trunk_id = t})
BudsOn(x) == Cardinality({b \in DOMAIN bud_cols : bud_cols[b].stem_id = x})

\* the entries of one list of the report are those of the rows whose count
\* is strictly greater than T, each with that count and excess = count - T
ReportsExactly(entries, rows, Count, T) ==
    /\ \A r \in rows : (\E e \in entries : e.id = r) <=> Count[r] > T
    /\ \A e \in entries :
          /\ e.id \in rows
          /\ e.count = Count[e.id]
          /\ e.count > T
          /\ e.excess = e.count - T
    /\ \A e, f \in entries : e.id = f.id => e = f

\* C15: with the threshold T in effect for each category, scan reports a
\* Trunk iff it has more than T Stems, a Stem iff it has more than T Buds,
\* a Trunk's fruits iff it has more than T Fruits, each with excess =
\* count - T, and nothing else.
C15_ScanReportsOverThreshold ==
    Scanned =>
       /\ ReportsExactly(out.shown.trunks, ScannedTrunks,
                         [t \in ScannedTrunks |-> StemsOn(t)],
                         out.args.stems_threshold)
       /\ ReportsExactly(out.shown.stems, ScannedStems,
                         [x \in ScannedStems |-> BudsOn(x)],
                         out.args.buds_threshold)
       /\ ReportsExactly(out.shown.fruits, ScannedTrunks,
                         [t \in ScannedTrunks |-> FruitsOn(t)],
                         out.args.fruits_threshold)

\* the Trunk with 12 Stems was scanned under the default threshold of 10
\* and is reported with excess 2; no Stem is reported
C15_Witness ==
    /\ Scanned
    /\ out.args.threshold = << >>
    /\ out.args.stems_threshold = DefaultThreshold
    /\ Len(stems) = DefaultThreshold + 2
    /\ out.shown.trunks = {Overgrown(1, DefaultThreshold + 2, DefaultThreshold)}
    /\ \A e \in out.shown.trunks : e.excess = 2
    /\ out.shown.stems = {}

\* the value stored for a key, or the default
Persisted(key) ==
    IF \E c \in tidy_config : c.key = key
    THEN (CHOOSE c \in tidy_config : c.key = key).value
    ELSE DefaultThreshold

\* C16: a scan given --threshold T, for any integer T, uses T for all three
\* categories whatever is stored; a scan without it uses for each category
\* the stored value if there is one and 10 otherwise.
C16_ThresholdOptionOverrides ==
    Scanned =>
       IF out.args.threshold # << >>
       THEN /\ out.args.stems_threshold = out.args.threshold[1]
            /\ out.args.buds_threshold = out.args.threshold[1]
            /\ out.args.fruits_threshold = out.args.threshold[1]
       ELSE /\ out.args.stems_threshold = Persisted("stems_per_trunk")
            /\ out.args.buds_threshold = Persisted("buds_per_stem")
            /\ out.args.fruits_threshold = Persisted("fruits_per_trunk")

\* rows2 is rows with, if hit, only the last_checked_at of row id set to now
CheckedOnly(rows, rows2, hit, id, now) ==
    /\ DOMAIN rows2 = DOMAIN rows
    /\ \A i \in DOMAIN rows :
          rows2[i] = IF hit /\ i = id
                     THEN [rows[i] EXCEPT !.last_checked_at = now]
                     ELSE rows[i]

\* C18: `context` without --peek on an existing item sets the item's
\* last_checked_at and appends exactly one 'checked' ActivityLog row for it;
\* with --peek the item's last_checked_at and the ActivityLog stay as they
\* are; in both modes no other row changes.
C18_ContextChecksUnlessPeek ==
    [][(/\ out'.cmd = "context"
        /\ out'.args.ref.ok
        /\ ItemFound(out'.args.ref.item_type, out'.args.ref.item_id))
       => LET r == out'.args.ref
              now == out'.args.now
          IN  IF out'.args.peek
              THEN UNCHANGED tables
              ELSE /\ now # NULL
                   /\ CheckedOnly(groves, groves', r.item_type = "grove",
                                  r.item_id, now)
                   /\ CheckedOnly(trunks, trunks', r.item_type = "trunk",
                                  r.item_id, now)
                   /\ CheckedOnly(stems, stems', r.item_type = "stem",
                                  r.item_id, now)
                   /\ CheckedOnly(bud_cols, bud_cols', r.item_type = "bud",
                                  r.item_id, now)
                   /\ log' = Append(log, ActivityLog(r.item_type, r.item_id,
                                                     "checked", ""))
                   /\ UNCHANGED <<buds, deps, fruits, tidy_config, pollen>>
      ]_vars

\* a --peek on a Stem that an earlier `context` has checked, next to a
\* Trunk that has never been checked
C18_Witness ==
    /\ out.cmd = "context"
    /\ out.args.peek
    /\ out.args.ref.ok
    /\ out.args.ref.item_type = "stem"
    /\ ItemFound("stem", out.args.ref.item_id)
    /\ stems[out.args.ref.item_id].last_checked_at # NULL
    /\ Len(log) = 1
    /\ Len(trunks) = 1
    /\ trunks[1].last_checked_at = NULL

\* C17: a `bloom`, `done`, `mulch`, `start` or `plant` that changes the
\* status of its Bud appends exactly one ActivityLog row, ('bud', the Bud's
\* id, 'status_changed', '<old status> -> <new status>'); one that changes
\* no status appends no row.
C17_StatusChangeLoggedOnce ==
    [][out'.cmd \in {"bloom", "done", "mulch", "start", "plant"}
       => LET bud_id == out'.args[1]
          IN  IF BudFound(bud_id) /\ buds'[bud_id] # buds[bud_id]
              THEN log' = Append(log,
                             ActivityLog("bud", bud_id, "status_changed",
                                         buds[bud_id] \o " -> "
                                            \o buds'[bud_id]))
              ELSE log' = log
      ]_vars

\* the 'created' rows of the ActivityLog of the Buds made from Pollen p
BudsFrom(p) ==
    {i \in DOMAIN log : /\ log[i].event_type = "created"
                        /\ log[i].content = "From pollen " \o ToString(p)}

\* every Pollen has produced at most one Bud, and is 'seeded' exactly when
\* its seed_id is set, to a Bud of its own
PollenSeededOnce ==
    \A p \in DOMAIN pollen :
       /\ Cardinality(BudsFrom(p)) <= 1
       /\ pollen[p].status = "seeded" <=> pollen[p].seed_id # NULL
       /\ pollen[p].status = "seeded" <=> BudsFrom(p) # {}
       /\ pollen[p].seed_id # NULL =>
             /\ pollen[p].seed_id \in DOMAIN buds
             /\ \A q \in DOMAIN pollen :
                   pollen[q].seed_id = pollen[p].seed_id => q = p

\* one step of `pollen pollinate` or `pollen reject`
PollenLeavesPendingOnce ==
    LET p == out'.args.pollen_id
    IN  /\ \A q \in DOMAIN pollen : q # p => pollen'[q] = pollen[q]
        /\ (p \in DOMAIN pollen /\ pollen[p].status # "pending")
              => UNCHANGED tables
        /\ out'.msg = "Pollinated" <=>
              (/\ p \in DOMAIN pollen
               /\ pollen[p].status = "pending"
               /\ pollen'[p].status = "seeded")
        /\ IF out'.msg = "Pollinated"
           THEN /\ buds' = Append(buds, "seed")
                /\ pollen'[p].seed_id = Len(buds')
           ELSE buds' = buds

\* C20: `pollen pollinate` and `pollen reject` change only pending Pollen
\* and leave seeded or rejected Pollen as it is, so a Pollen leaves
\* 'pending' at most once; a successful pollinate creates exactly one Bud,
\* of status 'seed', and records its id in seed_id; every Pollen has
\* produced at most one Bud and is 'seeded' if and only if its seed_id is
\* set.
C20_PollenSeededAtMostOnce ==
    /\ []PollenSeededOnce
    /\ [][out'.cmd \in {"pollen pollinate", "pollen reject"}
             => PollenLeavesPendingOnce]_vars

\* a second pollinate of a Pollen that is already seeded, next to a
\* rejected one
C20_Witness ==
    /\ out.cmd = "pollen pollinate"
    /\ out.msg = "Pollen already"
    /\ pollen[out.args.pollen_id].status = "seeded"
    /\ pollen[out.args.pollen_id].seed_id = 1
    /\ Len(buds) = 1
    /\ \E q \in DOMAIN pollen : pollen[q].status = "rejected"

\* C19: the ActivityLog is append-only: no command updates or deletes a
\* row that exists, so after every command the rows there were are still
\* there, unchanged and in place, and the set of rows only grows.
C19_ActivityLogAppendOnly ==
    [][/\ Len(log') >= Len(log)
       /\ SubSeq(log', 1, Len(log)) = log
       /\ Range(log) \subseteq Range(log')]_vars

\* a second row has been appended behind a first one of another kind
C19_Witness ==
    /\ Len(log) = 2
    /\ log[1].event_type = "checked"
    /\ log[2].event_type = "status_changed"
    /\ out.cmd \in {"bloom", "done", "mulch", "start", "plant"}

\* C21 as stated: the status mapping round-trips in both directions, for
\* every task status through the bead vocabulary and for every bead status
\* through the task vocabulary.
C21_StatusRoundTripsBothWays ==
    /\ (out.cmd = "map_task_status_to_bead_status"
           /\ out.args[1] \in TaskStatuses)
          => map_bead_status_to_task_status(out.msg) = out.args[1]
    /\ (out.cmd = "map_bead_status_to_task_status"
           /\ out.args[1] \in BeadStatuses)
          => map_task_status_to_bead_status(out.msg) = out.args[1]

\* the bead statuses that map_task_status_to_bead_status produces
WrittenBeadStatuses == {"open", "in_progress", "closed", "wont_fix"}

\* C21: every task status round-trips through the bead vocabulary; a bead
\* status round-trips through the task vocabulary exactly when it is one of
\* open, in_progress, closed, wont_fix; hooked, done and duplicate come
\* back as the written bead status of the same task status (in_progress,
\* closed, wont_fix).
C21_StatusRoundTrips ==
    /\ (out.cmd = "map_task_status_to_bead_status"
           /\ out.args[1] \in TaskStatuses)
          => /\ map_bead_status_to_task_status(out.msg) = out.args[1]
             /\ out.msg \in WrittenBeadStatuses
    /\ (out.cmd = "map_bead_status_to_task_status"
           /\ out.args[1] \in BeadStatuses)
          => LET back == map_task_status_to_bead_status(out.msg)
             IN  /\ out.msg \in TaskStatuses
                 /\ back = out.args[1] <=> out.args[1] \in WrittenBeadStatuses
                 /\ back \in WrittenBeadStatuses
                 /\ map_bead_status_to_task_status(back) = out.msg
                 /\ out.args[1] = "hooked" => back = "in_progress"
                 /\ out.args[1] = "done" => back = "closed"
                 /\ out.args[1] = "duplicate" => back = "wont_fix"

\* 'hooked' has been mapped to 'active'
C21_Witness ==
    /\ out.cmd = "map_bead_status_to_task_status"
    /\ out.args = <<"hooked">>
    /\ out.msg = "active"

\* the records of the well-formed issue lines, in file order
RECURSIVE IssueRecords(_)
IssueRecords(lines) ==
    IF lines = << >>
    THEN << >>
    ELSE LET line == Head(lines)
         IN  (IF line.kind = "object"
              THEN <<Bead(IF "id" \in line.has THEN line.id ELSE "",
                          IF "status" \in line.has THEN line.status ELSE "open")>>
              ELSE << >>) \o IssueRecords(Tail(lines))

\* C22: read_beads_jsonl on an existing issues.jsonl never fails because
\* of a line: whatever the lines are (issue objects, blank lines, text that
\* is not JSON, JSON values that are not objects) it returns one record
\* per issue line, in file order, and skips every other line.
C22_ReadSkipsEveryBadLine ==
    (out.cmd = "read_beads_jsonl" /\ out.args.exists)
       => out.shown = {Read("", IssueRecords(out.args.lines))}

\* C23: parse_item_ref('br:N') returns ('branch', N), and get_item_by_ref
\* (session, 'branch', id) returns the Stem with that id when there is one.
C23_BranchVocabulary ==
    /\ (out.cmd = "parse_item_ref" /\ Len(out.args) > 3
           /\ SubSeq(out.args, 1, 3) = <<"b", "r", ":">>
           /\ \A i \in 4..Len(out.args) : out.args[i] \in {"1", "2"})
          => \E r \in out.shown :
                /\ r.ok
                /\ r.item_type = "branch"
                /\ <<r.item_id>> = int(SubSeq(out.args, 4, Len(out.args)))
    /\ (out.cmd = "get_item_by_ref" /\ out.args.item_type = "branch"
           /\ out.args.item_id \in DOMAIN stems)
          => out.shown = {TRUE}

\* text is an integer as int() reads it: digits, after at most one sign,
\* with blanks around
IntegerText(text) ==
    \E a, b \in DOMAIN text :
       /\ a <= b
       /\ \A i \in DOMAIN text : (i < a \/ i > b) => text[i] = " "
       /\ \/ \A i \in a..b : text[i] \in Range(digits)
          \/ /\ a < b
             /\ text[a] \in {"+", "-"}
             /\ \A i \in (a + 1)..b : text[i] \in Range(digits)

\* the number an integer text stands for
RECURSIVE IntegerValue(_)
IntegerValue(text) ==
    IF text[Len(text)] = " " THEN IntegerValue(SubSeq(text, 1, Len(text) - 1))
    ELSE IF Head(text) = " " \/ Head(text) = "+" THEN IntegerValue(Tail(text))
    ELSE IF Head(text) = "-" THEN 0 - IntegerValue(Tail(text))
    ELSE IF Len(text) = 1 THEN find(digits, text[1]) - 1
    ELSE 10 * IntegerValue(SubSeq(text, 1, Len(text) - 1))
            + find(digits, text[Len(text)]) - 1

KnownPrefixes ==
    [g |-> "grove", G |-> "grove", t |-> "trunk", T |-> "trunk",
     s |-> "stem", S |-> "stem", b |-> "bud", B |-> "bud"]

Displayed(kind) == SelectSeq(out.shown, LAMBDA l : l.kind = kind)

\* C25: whatever the Bud's links to a Stem, a Trunk and a Grove are, and
\* the links of those, `why` displays at most one Stem, one Trunk and one
\* Grove: the Trunk of the Bud's Stem rather than the Bud's own Trunk, and
\* the Grove of the displayed Trunk rather than the Bud's own Grove.
C25_WhyShowsEachLevelOnce ==
    (out.cmd = "why" /\ out.args[1] \in DOMAIN bud_cols) =>
       LET bud == bud_cols[out.args[1]]
           via_stem == IF bud.stem_id = NULL THEN NULL
                       ELSE stems[bud.stem_id].trunk_id
           trunk_id == IF via_stem # NULL THEN via_stem ELSE bud.trunk_id
           via_trunk == IF trunk_id = NULL THEN NULL
                        ELSE trunks[trunk_id].grove_id
           grove_id == IF via_trunk # NULL THEN via_trunk ELSE bud.grove_id
           ids(kind) == [i \in DOMAIN Displayed(kind) |-> Displayed(kind)[i].id]
       IN  /\ ids("stem") = IF bud.stem_id = NULL THEN << >>
                            ELSE <<bud.stem_id>>
           /\ ids("trunk") = IF trunk_id = NULL THEN << >> ELSE <<trunk_id>>
           /\ ids("grove") = IF grove_id = NULL THEN << >> ELSE <<grove_id>>

\* a Bud on a Stem of Trunk 1 (Grove 1) with direct links to Trunk 2 and
\* Grove 2: Trunk 1 and Grove 1 are displayed
C25_Witness ==
    /\ out.cmd = "why"
    /\ out.args[1] \in DOMAIN bud_cols
    /\ bud_cols[out.args[1]].stem_id = 1
    /\ bud_cols[out.args[1]].trunk_id = 2
    /\ bud_cols[out.args[1]].grove_id = 2
    /\ stems[1].trunk_id = 1
    /\ trunks[1].grove_id = 1
    /\ out.shown = <<Level("stem", 1, FALSE), Level("trunk", 1, FALSE),
                     Level("grove", 1, FALSE)>>

\* C26: when unblock(a, b) reports that it removed the relationship, no
\* BudDependency row with bud_id = b and depends_on_id = a remains: a no
\* longer blocks b.
C26_UnblockRemovesRelationship ==
    (out.cmd = "unblock" /\ out.msg = "Removed")
       => DepRows(deps, out.args[2], out.args[1]) = {}

\* os.path.abspath of the paths tried, the command running in /home/me
AbsolutePath(beads_path) ==
    IF beads_path = "../shared/.beads" THEN "/home/shared/.beads"
    ELSE beads_path

\* C27: `stem link` on a Stem that exists sets its beads_repo to the
\* absolute form of the path and changes nothing else; on a Stem that does
\* not exist it reports 'Stem not found' and changes nothing; it never ends
\* in an uncaught exception.
C27_StemLinkSetsBeadsRepo ==
    [][out'.cmd = "stem link" =>
          LET stem_id == out'.args.stem_id
          IN  /\ out'.msg \notin {"NameError"}
              /\ IF stem_id \in DOMAIN stems
                 THEN /\ stems' = [stems EXCEPT ![stem_id].beads_repo =
                                      AbsolutePath(out'.args.beads_path)]
                      /\ UNCHANGED <<buds, bud_cols, deps, log, groves,
                                     trunks, fruits, tidy_config, pollen>>
                 ELSE /\ out'.msg = "Stem not found"
                      /\ UNCHANGED tables
      ]_vars

\* C28: when two processes have run blocks(a, b) side by side and both
\* have finished, at most one BudDependency row with bud_id = b and
\* depends_on_id = a exists.
C28_ConcurrentBlocksOneRow ==
    \A p, q \in DOMAIN procs :
       (/\ p # q
        /\ procs[p] = procs[q]
        /\ procs[p].pc = "done")
          => CopiesIn(BudDependency(procs[p].blocked_id, procs[p].blocker_id),
                      deps) <= 1

\* the Buds that a blocks in at most n steps (a blocks b: a row with
\* bud_id = b and depends_on_id = a)
RECURSIVE BlockedWithin(_, _)
BlockedWithin(a, n) ==
    IF n = 0
    THEN {}
    ELSE LET near == BlockedWithin(a, n - 1)
         IN  near \cup {b \in DOMAIN buds :
                           \E c \in near \cup {a} : DepRows(deps, b, c) # {}}

\* C29: the 'blocks' relation among Buds is acyclic: no Bud blocks itself,
\* directly or through other Buds.
C29_BlocksAcyclic ==
    \A a \in DOMAIN buds : a \notin BlockedWithin(a, Len(buds))

\* the Stems above Stem x by at most n parent_stem_id links
RECURSIVE ParentsWithin(_, _)
ParentsWithin(x, n) ==
    IF n = 0
    THEN {}
    ELSE LET near == ParentsWithin(x, n - 1)
         IN  near \cup {stems[y].parent_stem_id :
                           y \in {z \in near \cup {x} :
                                     /\ z \in DOMAIN stems
                                     /\ stems[z].parent_stem_id # NULL}}

\* C30: after non-dry-run grafts of Stems onto Stems or Trunks no Stem is
\* its own parent and the parent_stem_id relation among Stems has no cycle.
C30_StemParentsAcyclic ==
    \A x \in DOMAIN stems :
       /\ stems[x].parent_stem_id # x
       /\ x \notin ParentsWithin(x, Len(stems))

====
